---- MODULE Spec2Model ----
(***************************************************************************)
(* A model of the moment-extraction pipeline of nio-transcribe:            *)
(*   - the chunker and orchestrator of src/llm_client.py (extract_moments, *)
(*     _process_single_chunk, _process_chunks_parallel),                   *)
(*   - the response parser of src/extraction.py (parse_moment_response),   *)
(*   - the file cache of src/cache_utils.py.                               *)
(* Text is modelled as a sequence of characters (chunker) or of lexical    *)
(* tokens (parser); every conversion is computed as the code computes it.  *)
(***************************************************************************)
EXTENDS Integers, Sequences, FiniteSets, TLC

VARIABLES
    transcript,       \* extract_moments: the `transcript` argument (None or a string)
    max_chunk_chars,  \* extract_moments: config.CHARS_PER_CHUNK as read at line 153
    chunks,           \* extract_moments: the list `chunks` (each chunk a string)
    pc,               \* position in extract_moments / _process_chunks_parallel
    cache,            \* the cache directory: cache key -> file content
    submitted,        \* _process_chunks_parallel: chunks handed to executor.submit so far
    task,             \* per chunk index: "new", "queued", "running" or "done"
    future,           \* per chunk index: the future's outcome [exc, value]
    outcome,          \* history: per chunk index, what its LLM call and parse did
    order,            \* chunk indexes in the order as_completed yielded them
    all_moments,      \* _process_chunks_parallel: the list `all_moments`
    result,           \* what extract_moments returned
    response_text,    \* parse_moment_response: the `response_text` argument
    wrapped_text,     \* the same response inside a code fence or prose
    wrap,             \* what was put around the response: [kind, pre, post]
    data,             \* parse_moment_response: `data` at line 65 (JNull for None)
    root_moments,     \* parse_moment_response: `moments` at line 79
    parsed,           \* outcome of parse_moment_response(response_text)
    parsed_wrapped,   \* outcome of parse_moment_response(wrapped_text)
    ppc,              \* position of the parser run
    run_ids,          \* extract_moments: the `id` of each moment of the run's list, in order
    run_chunks,       \* chunks of the run whose response has been parsed
    req,              \* _build_cache_key: two requests [text, metadata]
    keys,             \* _build_cache_key: the keys of the two requests
    disk,             \* the cache directory: cache key -> text of the key's file
    writer,           \* per save_moments_to_cache call in progress: [st, key, text]
    lookup,           \* what the last get_cached_moments call returned: [key, hit, moments]
    stored,           \* history: cache key -> the list of the last completed store
    sequential,       \* history: no cache call has overlapped another so far
    faultfree,        \* history: no I/O fault in a cache call so far
    cache_raised,     \* history: a cache call let an exception out to its caller
    call_no,          \* history: number of the extract_moments call in progress
    kept,             \* history: cache key -> [moments, call] of the last completed store
    zero_run,         \* history: cache keys whose last completed run found no moment
    cache_at_start,   \* history: the cache when the call in progress began
    moments_with_cuts, \* to_ffmpeg_json: the `moments_with_cuts` argument
    ffmpeg_clips,     \* to_ffmpeg_json: the list `ffmpeg_clips` it returns
    response,         \* parse_cut_sheet_response: the lines of `response_text`
    original_moments, \* parse_cut_sheet_response: the `original_moments` argument
    updated_moments,  \* parse_cut_sheet_response: its outcome [raised, moments]
    t_ms,             \* clipper: a time, in milliseconds
    t_text,           \* clipper: _seconds_to_timestamp of that time
    t_back,           \* clipper: _timestamp_to_seconds of that text, in milliseconds
    clip,             \* cut_from_ffmpeg_json: one clip of the JSON, with the times it means
    padded,           \* cut_from_ffmpeg_json: the texts `start_padded`, `end_padded`
    seek,             \* cut_video: what ffmpeg is given, [ss, t] in milliseconds
    tpc               \* position of the export, cut-sheet or clipper run

pool_vars == <<submitted, task, future, outcome, order, all_moments>>
extract_vars == <<transcript, max_chunk_chars, chunks, pc, cache, result, pool_vars>>
parser_vars ==
    <<response_text, wrapped_text, wrap, data, root_moments, parsed, parsed_wrapped, ppc>>
id_vars == <<run_ids, run_chunks>>
key_vars == <<req, keys>>
cache_vars == <<disk, writer, lookup, stored, sequential, faultfree, cache_raised>>
run_vars == <<call_no, kept, zero_run, cache_at_start>>
export_vars == <<moments_with_cuts, ffmpeg_clips>>
sheet_vars == <<response, original_moments, updated_moments>>
clip_vars == <<t_ms, t_text, t_back, clip, padded, seek>>
tool_vars == <<export_vars, sheet_vars, clip_vars, tpc>>
store_vars == <<id_vars, key_vars, cache_vars, run_vars, tool_vars>>
vars == <<extract_vars, parser_vars, store_vars>>

(***************************************************************************)
(* Bounds of the model.                                                    *)
(***************************************************************************)
\* longest transcript text given to the chunker alone, in characters
MaxLen == 5
\* longest transcript text given to a whole run of extract_moments
MaxShort == 3
\* most chunks given to _process_chunks_parallel alone
MaxChunks == 4
\* largest value of CHARS_PER_CHUNK tried
MaxChunkChars == 4
\* longest list of entries a response holds (beside the one-entry lists)
MaxItems == 3
\* longest prose before and after an embedded object, in tokens
MaxProse == 1

(***************************************************************************)
(* Strings: sequences of one-character strings.                            *)
(***************************************************************************)
\* Python's None, kept apart from every string
None == <<"None">>
NL == "\n"
Char == {"a", " ", NL}
Whitespace == {" ", NL}

StringsUpTo(n) == UNION {[1..k -> Char] : k \in 0..n}

\* str.strip(): drop leading and trailing whitespace
RECURSIVE LStrip(_)
LStrip(s) == IF s # <<>> /\ Head(s) \in Whitespace THEN LStrip(Tail(s)) ELSE s

RECURSIVE RStrip(_)
RStrip(s) ==
    IF s # <<>> /\ s[Len(s)] \in Whitespace THEN RStrip(SubSeq(s, 1, Len(s) - 1)) ELSE s

Strip(s) == RStrip(LStrip(s))

\* str.split("\n"): the pieces between newlines; the empty string gives <<"">>
RECURSIVE SplitNL(_)
SplitNL(s) ==
    IF \A i \in 1..Len(s) : s[i] # NL THEN <<s>>
    ELSE LET i == CHOOSE j \in 1..Len(s) : s[j] = NL /\ \A k \in 1..(j - 1) : s[k] # NL
         IN <<SubSeq(s, 1, i - 1)>> \o SplitNL(SubSeq(s, i + 1, Len(s)))

\* str.splitlines(): as split("\n"), but the empty string has no line and a
\* final newline opens no further line
SplitLines(s) ==
    IF s = <<>> THEN <<>>
    ELSE IF s[Len(s)] = NL THEN SplitNL(SubSeq(s, 1, Len(s) - 1))
    ELSE SplitNL(s)

\* "\n".join(lines)
RECURSIVE JoinNL(_)
JoinNL(lines) ==
    IF lines = <<>> THEN <<>>
    ELSE IF Len(lines) = 1 THEN lines[1]
    ELSE lines[1] \o <<NL>> \o JoinNL(Tail(lines))

\* sum(len(l) for l in current)
RECURSIVE SumLen(_)
SumLen(lines) == IF lines = <<>> THEN 0 ELSE Len(Head(lines)) + SumLen(Tail(lines))

RECURSIVE Flatten(_)
Flatten(ss) == IF ss = <<>> THEN <<>> ELSE Head(ss) \o Flatten(Tail(ss))

(***************************************************************************)
(* The chunker: lines 152-164 of extract_moments.                          *)
(***************************************************************************)
\* line 158: the test that closes the current chunk before `line`
ChunkIsFull(current, line, limit) == SumLen(current) + Len(line) + 1 > limit

\* a chunker that forgets the line that triggered the flush
NextCurrentDropsLine(current, line, flush) ==
    IF flush THEN <<>> ELSE Append(current, line)

\* lines 159-162: `current` after one iteration of the loop
NextCurrent(current, line, flush) ==
    Append(IF flush THEN <<>> ELSE current, line)

\* lines 157-164: the loop over the lines, then the final flush
RECURSIVE ChunkLoop(_, _, _, _)
ChunkLoop(lines, current, acc, limit) ==
    IF lines = <<>>
    THEN IF current # <<>> THEN Append(acc, JoinNL(current)) ELSE acc
    ELSE LET line == Head(lines)
             flush == ChunkIsFull(current, line, limit) /\ current # <<>>
         IN ChunkLoop(Tail(lines),
                      NextCurrent(current, line, flush),
                      IF flush THEN Append(acc, JoinNL(current)) ELSE acc,
                      limit)

ChunkTranscript(text, limit) == ChunkLoop(SplitLines(text), <<>>, <<>>, limit)

\* line 143: (transcript or "").strip()
Stripped(t) == IF t = None THEN <<>> ELSE Strip(t)

(***************************************************************************)
(* JSON values as Python holds them after json.loads.  Every value has the *)
(* same five fields, so that any two values can be compared:               *)
(*   t     "null" | "bool" | "num" | "str" | "list" | "dict"               *)
(*   n     the number (bool: 1 for True, 0 for False)                      *)
(*   s     the string                                                      *)
(*   items the elements of a list, the values of a dict (insertion order)  *)
(*   keys  the keys of a dict, in insertion order                          *)
(***************************************************************************)
JNull == [t |-> "null", n |-> 0, s |-> "", items |-> <<>>, keys |-> <<>>]
JBool(b) == [t |-> "bool", n |-> IF b THEN 1 ELSE 0, s |-> "", items |-> <<>>, keys |-> <<>>]
JNum(x) == [t |-> "num", n |-> x, s |-> "", items |-> <<>>, keys |-> <<>>]
JStr(x) == [t |-> "str", n |-> 0, s |-> x, items |-> <<>>, keys |-> <<>>]
JList(xs) == [t |-> "list", n |-> 0, s |-> "", items |-> xs, keys |-> <<>>]
JDict(ks, xs) == [t |-> "dict", n |-> 0, s |-> "", items |-> xs, keys |-> ks]
EmptyDict == JDict(<<>>, <<>>)

\* `k in d`
HasKey(d, k) == \E i \in 1..Len(d.keys) : d.keys[i] = k
KeyIndex(d, k) == CHOOSE i \in 1..Len(d.keys) : d.keys[i] = k
\* d.get(k, default)
Get(d, k, default) == IF HasKey(d, k) THEN d.items[KeyIndex(d, k)] ELSE default
\* d[k] = v
DictSet(d, k, v) ==
    IF HasKey(d, k) THEN [d EXCEPT !.items[KeyIndex(d, k)] = v]
    ELSE [d EXCEPT !.keys = Append(@, k), !.items = Append(@, v)]
\* d.setdefault(k, v)
SetDefault(d, k, v) == IF HasKey(d, k) THEN d ELSE DictSet(d, k, v)

\* Python truthiness: `if v`
Truthy(v) ==
    CASE v.t = "null" -> FALSE
      [] v.t = "bool" -> v.n = 1
      [] v.t = "num" -> v.n # 0
      [] v.t = "str" -> v.s # ""
      [] v.t = "list" -> v.items # <<>>
      [] v.t = "dict" -> v.keys # <<>>

(***************************************************************************)
(* Cache keys: _build_cache_key (src/cache_utils.py, lines 21-44).         *)
(***************************************************************************)
\* hashlib.md5(text).hexdigest(): a string that is a function of the text.  The
\* digest is computed from the characters, position by position, and differs
\* for any two texts of the model (md5 taken as free of collisions on them).
CharCode(c) == CASE c = "a" -> 1 [] c = " " -> 2 [] OTHER -> 3
RECURSIVE Digest(_)
Digest(text) == IF text = <<>> THEN 0 ELSE CharCode(Head(text)) + 4 * Digest(Tail(text))
Md5(text) == ToString(Digest(text))

\* video_metadata=None
NoMetadata == JNull

\* how an f-string writes a value
Format(v) ==
    CASE v.t = "str" -> v.s
      [] v.t = "null" -> "None"
      [] v.t = "num" -> ToString(v.n)
      [] v.t = "bool" -> IF v.n = 1 THEN "True" ELSE "False"
      [] OTHER -> "?"

\* a key builder that always hashes the transcript
BuildCacheKeyHashOnly(text, video_metadata) == "transcript_" \o Md5(text)

\* lines 36-44
BuildCacheKeyFor(text, video_metadata) ==
    LET video_id == Get(video_metadata, "video_id", JStr(""))
        language == Get(video_metadata, "language", JStr("en"))
    IN  IF Truthy(video_metadata) /\ Truthy(video_id)
        THEN "video_" \o Format(video_id) \o "_" \o Format(language)
        ELSE "transcript_" \o Md5(text)

\* the key of a call that passes no metadata
BuildCacheKey(text) == BuildCacheKeyFor(text, NoMetadata)

\* the metadata of the requests: none, empty, with and without id and language
KeyMetas ==
    {NoMetadata, EmptyDict,
     JDict(<<"video_id">>, <<JStr("v")>>),
     JDict(<<"video_id", "language">>, <<JStr("v"), JStr("en")>>),
     JDict(<<"video_id", "language">>, <<JStr("v"), JStr("z")>>),
     JDict(<<"video_id", "language">>, <<JStr(""), JStr("z")>>),
     JDict(<<"video_id", "language">>, <<JNull, JStr("z")>>),
     JDict(<<"video_id", "language">>, <<JStr("x_y"), JStr("z")>>),
     JDict(<<"video_id", "language">>, <<JStr("x"), JStr("y_z")>>),
     JDict(<<"language">>, <<JStr("z")>>)}
KeyTexts == {<<"a">>, <<"a", " ", "a">>}
KeyRequests == {[text |-> t, metadata |-> m] : t \in KeyTexts, m \in KeyMetas}
CacheKeys == {BuildCacheKeyFor(r.text, r.metadata) : r \in KeyRequests}

(***************************************************************************)
(* Response text: a sequence of lexical tokens.  A token is a fence        *)
(* (three backticks), a newline, a space, a prose word, a JSON punctuation *)
(* mark, a JSON string literal (written with its quotes), a JSON number or *)
(* one of true, false, null.                                               *)
(***************************************************************************)
\* the fence token stands for three backticks
Fence == "FENCE"
Word == "w"
\* the strings that occur in responses
StrVals ==
    {"", "x", "t", "12", "moments", "quote", "timestamps", "clip_duration_seconds",
     "persona_captions", "historian", "id", "a b c", "viral_trigger", "flags", "thomist",
     "cache_key", "moments_count"}
    \cup CacheKeys
NumVals == {0, 5, -1, 1, 2}
\* the token of the string literal with content x (the quotes written as ')
StrTok(x) == "'" \o x \o "'"
NumTok(x) == ToString(x)
StrToks == {StrTok(x) : x \in StrVals}
NumToks == {NumTok(x) : x \in NumVals}
StrOf(tok) == CHOOSE x \in StrVals : StrTok(x) = tok
NumOf(tok) == CHOOSE x \in NumVals : NumTok(x) = tok

\* json.dumps(v, separators=(",", ":")): the text of a value
RECURSIVE Render(_)
RECURSIVE RenderItems(_)
RECURSIVE RenderMembers(_, _)
Render(v) ==
    CASE v.t = "null" -> <<"null">>
      [] v.t = "bool" -> IF v.n = 1 THEN <<"true">> ELSE <<"false">>
      [] v.t = "num" -> <<NumTok(v.n)>>
      [] v.t = "str" -> <<StrTok(v.s)>>
      [] v.t = "list" -> <<"[">> \o RenderItems(v.items) \o <<"]">>
      [] v.t = "dict" -> <<"{">> \o RenderMembers(v.keys, v.items) \o <<"}">>
RenderItems(xs) ==
    IF xs = <<>> THEN <<>>
    ELSE IF Len(xs) = 1 THEN Render(xs[1])
    ELSE Render(xs[1]) \o <<",">> \o RenderItems(Tail(xs))
RenderMembers(ks, xs) ==
    IF ks = <<>> THEN <<>>
    ELSE IF Len(ks) = 1 THEN <<StrTok(ks[1]), ":">> \o Render(xs[1])
    ELSE <<StrTok(ks[1]), ":">> \o Render(xs[1]) \o <<",">> \o RenderMembers(Tail(ks), Tail(xs))

(***************************************************************************)
(* json.loads: a recursive-descent parse of the token sequence.            *)
(* A parse step returns [ok, val, pos]: pos is the next unread position.   *)
(***************************************************************************)
ParseFail == [ok |-> FALSE, val |-> JNull, pos |-> 0]
ParseOk(v, p) == [ok |-> TRUE, val |-> v, pos |-> p]

RECURSIVE SkipWS(_, _)
SkipWS(toks, p) ==
    IF p <= Len(toks) /\ toks[p] \in Whitespace THEN SkipWS(toks, p + 1) ELSE p

RECURSIVE ParseValue(_, _)
RECURSIVE ParseElements(_, _, _, _)
RECURSIVE ParseMembers(_, _, _, _)
ParseValue(toks, p) ==
    LET q == SkipWS(toks, p) IN
    IF q > Len(toks) THEN ParseFail
    ELSE LET tk == toks[q] IN
         CASE tk = "{" -> ParseMembers(toks, q + 1, EmptyDict, TRUE)
           [] tk = "[" -> ParseElements(toks, q + 1, <<>>, TRUE)
           [] tk \in StrToks -> ParseOk(JStr(StrOf(tk)), q + 1)
           [] tk \in NumToks -> ParseOk(JNum(NumOf(tk)), q + 1)
           [] tk = "true" -> ParseOk(JBool(TRUE), q + 1)
           [] tk = "false" -> ParseOk(JBool(FALSE), q + 1)
           [] tk = "null" -> ParseOk(JNull, q + 1)
           [] OTHER -> ParseFail

\* after "[": elements separated by commas, then "]"
ParseElements(toks, p, acc, first) ==
    LET q == SkipWS(toks, p) IN
    IF q > Len(toks) THEN ParseFail
    ELSE IF first /\ toks[q] = "]" THEN ParseOk(JList(acc), q + 1)
    ELSE LET r == ParseValue(toks, q) IN
         IF ~r.ok THEN ParseFail
         ELSE LET q2 == SkipWS(toks, r.pos) IN
              IF q2 > Len(toks) THEN ParseFail
              ELSE IF toks[q2] = "," THEN ParseElements(toks, q2 + 1, Append(acc, r.val), FALSE)
              ELSE IF toks[q2] = "]" THEN ParseOk(JList(Append(acc, r.val)), q2 + 1)
              ELSE ParseFail

\* after "{": "key": value members separated by commas, then "}"
ParseMembers(toks, p, acc, first) ==
    LET q == SkipWS(toks, p) IN
    IF q > Len(toks) THEN ParseFail
    ELSE IF first /\ toks[q] = "}" THEN ParseOk(acc, q + 1)
    ELSE IF toks[q] \notin StrToks THEN ParseFail
    ELSE LET c == SkipWS(toks, q + 1) IN
         IF c > Len(toks) \/ toks[c] # ":" THEN ParseFail
         ELSE LET r == ParseValue(toks, c + 1) IN
              IF ~r.ok THEN ParseFail
              ELSE LET q2 == SkipWS(toks, r.pos)
                       d == DictSet(acc, StrOf(toks[q]), r.val)
                   IN IF q2 > Len(toks) THEN ParseFail
                      ELSE IF toks[q2] = "," THEN ParseMembers(toks, q2 + 1, d, FALSE)
                      ELSE IF toks[q2] = "}" THEN ParseOk(d, q2 + 1)
                      ELSE ParseFail

\* json.loads(candidate): one value, white space around it, nothing else
JsonLoads(toks) ==
    LET r == ParseValue(toks, 1) IN
    IF r.ok /\ SkipWS(toks, r.pos) > Len(toks) THEN r ELSE ParseFail

(***************************************************************************)
(* parse_moment_response (src/extraction.py).                              *)
(***************************************************************************)
\* a fence stripper that drops the opening fence line and leaves the closing fence
StripOpeningFenceOnly(text) ==
    LET t == Strip(text) IN
    IF t # <<>> /\ Head(t) = Fence /\ (\E i \in 1..Len(t) : t[i] = NL)
    THEN LET first_newline == CHOOSE i \in 1..Len(t) : t[i] = NL /\ \A k \in 1..(i - 1) : t[k] # NL
         IN Strip(SubSeq(t, first_newline + 1, Len(t)))
    ELSE t

\* lines 17-30: strip one outer code fence
StripCodeFences(text) ==
    LET t == Strip(text) IN
    IF t # <<>> /\ Head(t) = Fence
    THEN LET hasNL == \E i \in 1..Len(t) : t[i] = NL
             first_newline == CHOOSE i \in 1..Len(t) : t[i] = NL /\ \A k \in 1..(i - 1) : t[k] # NL
             t1 == IF hasNL THEN SubSeq(t, first_newline + 1, Len(t)) ELSE t
             t2 == IF t1 # <<>> /\ t1[Len(t1)] = Fence THEN SubSeq(t1, 1, Len(t1) - 1) ELSE t1
         IN Strip(t2)
    ELSE Strip(t)

\* lines 32-36: json.loads, None when the text is not JSON (and for JSON null)
TryLoadJson(candidate) ==
    LET r == JsonLoads(candidate) IN IF r.ok THEN r.val ELSE JNull

\* re.search(open [\s\S]* close): from the first `open` to the last `close` after it
HasMatch(text, open, close) ==
    \E i, j \in 1..Len(text) : i < j /\ text[i] = open /\ text[j] = close
\* a search that stops at the first `close` after the first `open`
LazyMatch(text, open, close) ==
    LET i == CHOOSE x \in 1..Len(text) : text[x] = open /\ \A k \in 1..(x - 1) : text[k] # open
        j == CHOOSE y \in (i + 1)..Len(text) : text[y] = close /\ \A k \in (i + 1)..(y - 1) : text[k] # close
    IN SubSeq(text, i, j)
GreedyMatch(text, open, close) ==
    LET i == CHOOSE x \in 1..Len(text) : text[x] = open /\ \A k \in 1..(x - 1) : text[k] # open
        j == CHOOSE y \in 1..Len(text) : text[y] = close /\ \A k \in (y + 1)..Len(text) : text[k] # close
    IN SubSeq(text, i, j)

\* lines 44-57: the biggest JSON-looking block, an object before an array
ExtractBlock(clean_response) ==
    IF HasMatch(clean_response, "{", "}")
    THEN TryLoadJson(GreedyMatch(clean_response, "{", "}"))
    ELSE IF HasMatch(clean_response, "[", "]")
    THEN TryLoadJson(GreedyMatch(clean_response, "[", "]"))
    ELSE JNull

\* lines 38-57: the root `data`, None (JNull) when nothing parses
LoadRoot(text) ==
    LET clean_response == StripCodeFences(text)
        direct == TryLoadJson(clean_response)
    IN IF direct = JNull THEN ExtractBlock(clean_response) ELSE direct

\* line 73: the root object itself is taken as the one moment
WrapsRoot(root, moments) ==
    ~Truthy(moments) /\ (HasKey(root, "quote") \/ HasKey(root, "timestamps"))

\* stands for `moments` when the function returns [] before line 79
EarlyReturn == [t |-> "return", n |-> 0, s |-> "", items |-> <<>>, keys |-> <<>>]

\* lines 65-77: the value bound to `moments`, EarlyReturn for the `return []`
\* of lines 75-77
RootMoments(root) ==
    CASE root.t = "list" -> root
      [] root.t = "dict" ->
            LET moments == Get(root, "moments", JList(<<>>)) IN
            IF WrapsRoot(root, moments) THEN JList(<<root>>) ELSE moments
      [] OTHER -> EarlyReturn

\* what `for i, moment in enumerate(moments)` yields; numbers, booleans and
\* None are not iterable (TypeError)
Iterable(v) == v.t \in {"list", "str", "dict"}
IterItems(v) ==
    CASE v.t = "list" -> v.items
      [] v.t = "dict" -> [i \in 1..Len(v.keys) |-> JStr(v.keys[i])]
      [] v.t = "str" -> [i \in 1..Len(v.s) |-> JStr("c")]
      [] OTHER -> <<>>

\* len(quote.split())
WordCount(x) == CASE x = "" -> 0 [] x = "a b c" -> 3 [] OTHER -> 1

\* lines 105-108: int(llm_duration) if llm_duration else 0, 0 on any exception
LlmDuration(v) ==
    IF ~Truthy(v) THEN 0
    ELSE CASE v.t \in {"num", "bool"} -> v.n
           [] v.t = "str" /\ v.s = "12" -> 12
           [] OTHER -> 0

\* line 110: int(word_count / 2.6)
WordBasedDuration(word_count) == IF word_count > 0 THEN (word_count * 10) \div 26 ELSE 0

\* a duration that trusts the model's estimate alone
MaxIsEstimate(a, b) == a
Max(a, b) == IF a >= b THEN a ELSE b

PersonaKeys ==
    <<"historian", "thomist", "ex_protestant", "meme_catholic", "old_world_catholic", "catholic">>

\* a fill that blanks every persona caption, the supplied ones too
RECURSIVE FillPersonasOverwrites(_, _)
FillPersonasOverwrites(captions, ks) ==
    IF ks = <<>> THEN captions
    ELSE FillPersonasOverwrites(DictSet(captions, Head(ks), JStr("")), Tail(ks))

\* lines 121-122: setdefault of every persona key
RECURSIVE FillPersonas(_, _)
FillPersonas(captions, ks) ==
    IF ks = <<>> THEN captions
    ELSE FillPersonas(SetDefault(captions, Head(ks), JStr("")), Tail(ks))

\* lines 86-124 for one dict entry: [kind |-> "skip" | "raise" | "keep", moment]
NormalizeMoment(moment, uuid) ==
    LET m1 == DictSet(moment, "id", JStr(uuid))
        m2 == IF ~Truthy(Get(m1, "timestamps", JNull))
              THEN SetDefault(m1, "timestamps", JStr("")) ELSE m1
        quote == Get(m2, "quote", JStr(""))
        llm_duration == LlmDuration(Get(m2, "clip_duration_seconds", JNum(0)))
        word_based_duration == WordBasedDuration(WordCount(quote.s))
        m3 == DictSet(m2, "clip_duration_seconds", JNum(Max(llm_duration, word_based_duration)))
        m4 == SetDefault(SetDefault(SetDefault(SetDefault(SetDefault(m3,
                  "viral_trigger", JStr("")), "why_it_hits", JStr("")), "energy_tag", JStr("")),
                  "flags", JList(<<>>)), "persona_captions", EmptyDict)
        captions == Get(m4, "persona_captions", EmptyDict)
    IN  IF ~Truthy(Get(m1, "quote", JNull)) THEN [kind |-> "skip", moment |-> m1]
        ELSE IF quote.t # "str" THEN [kind |-> "raise", moment |-> m2]
        ELSE IF captions.t # "dict" THEN [kind |-> "raise", moment |-> m4]
        ELSE [kind |-> "keep",
              moment |-> DictSet(m4, "persona_captions", FillPersonas(captions, PersonaKeys))]

\* a loop that puts each kept moment in front of the earlier ones
RECURSIVE NormalizeLoopPrepends(_, _, _)
NormalizeLoopPrepends(entries, uuids, acc) ==
    IF entries = <<>> THEN [raised |-> FALSE, moments |-> acc]
    ELSE IF Head(entries).t # "dict" THEN NormalizeLoopPrepends(Tail(entries), uuids, acc)
    ELSE LET r == NormalizeMoment(Head(entries), Head(uuids)) IN
         CASE r.kind = "raise" -> [raised |-> TRUE, moments |-> <<>>]
           [] r.kind = "skip" -> NormalizeLoopPrepends(Tail(entries), Tail(uuids), acc)
           [] OTHER -> NormalizeLoopPrepends(Tail(entries), Tail(uuids), <<r.moment>> \o acc)

\* lines 80-126: the loop; uuids are the values uuid4 returns, one per dict entry
RECURSIVE NormalizeLoop(_, _, _)
NormalizeLoop(entries, uuids, acc) ==
    IF entries = <<>> THEN [raised |-> FALSE, moments |-> acc]
    ELSE IF Head(entries).t # "dict" THEN NormalizeLoop(Tail(entries), uuids, acc)
    ELSE LET r == NormalizeMoment(Head(entries), Head(uuids)) IN
         CASE r.kind = "raise" -> [raised |-> TRUE, moments |-> <<>>]
           [] r.kind = "skip" -> NormalizeLoop(Tail(entries), Tail(uuids), acc)
           [] OTHER -> NormalizeLoop(Tail(entries), Tail(uuids), Append(acc, r.moment))

\* lines 79-126 on the value bound to `moments`
NormalizeAll(moments, uuids) ==
    IF moments = EarlyReturn THEN [raised |-> FALSE, moments |-> <<>>]
    ELSE IF ~Iterable(moments) THEN [raised |-> TRUE, moments |-> <<>>]
    ELSE NormalizeLoop(IterItems(moments), uuids, <<>>)

\* the whole function: [raised, moments]
ParseMomentResponse(text, uuids) ==
    LET root == LoadRoot(text) IN
    IF root = JNull THEN [raised |-> FALSE, moments |-> <<>>]
    ELSE NormalizeAll(RootMoments(root), uuids)

\* the ids uuid4 hands out in one call: fresh values, here numbered from `base`
Uuids(base) == [i \in 1..8 |-> "u" \o ToString(base + i)]

(***************************************************************************)
(* The parser run on its own: one call of parse_moment_response on the     *)
(* response and one on the wrapped response.                               *)
(***************************************************************************)
NoResult == [raised |-> FALSE, moments |-> <<>>]

NoWrap == [kind |-> "none", pre |-> <<>>, post |-> <<>>]

ParserIdle ==
    /\ response_text = <<>>
    /\ wrapped_text = <<>>
    /\ wrap = NoWrap
    /\ data = JNull
    /\ root_moments = EarlyReturn
    /\ parsed = NoResult
    /\ parsed_wrapped = NoResult
    /\ ppc = "idle"

PoolIdle ==
    /\ submitted = 0
    /\ task = <<>>
    /\ future = <<>>
    /\ outcome = <<>>
    /\ order = <<>>
    /\ all_moments = <<>>

\* no extract_moments call has been made
RunIdle ==
    /\ call_no = 0
    /\ kept = <<>>
    /\ zero_run = {}
    /\ cache_at_start = <<>>

ExportIdle ==
    /\ moments_with_cuts = <<>>
    /\ ffmpeg_clips = <<>>

SheetIdle ==
    /\ response = <<>>
    /\ original_moments = <<>>
    /\ updated_moments = <<>>

ClipIdle ==
    /\ t_ms = 0
    /\ t_text = <<>>
    /\ t_back = 0
    /\ clip = <<>>
    /\ padded = <<>>
    /\ seek = <<>>

\* no export, cut-sheet or clipper call has been made
ToolIdle == ExportIdle /\ SheetIdle /\ ClipIdle /\ tpc = "idle"

FilesIdle ==
    /\ run_ids = <<>>
    /\ run_chunks = 0
    /\ req = <<>>
    /\ keys = <<>>
    /\ disk = <<>>
    /\ writer = <<>>
    /\ lookup = <<>>
    /\ stored = <<>>
    /\ sequential = TRUE
    /\ faultfree = TRUE
    /\ cache_raised = FALSE

StoreIdle == FilesIdle /\ RunIdle /\ ToolIdle

ExtractIdle ==
    /\ transcript = None
    /\ max_chunk_chars = 1
    /\ chunks = <<>>
    /\ pc = "idle"
    /\ cache = <<>>
    /\ result = <<>>
    /\ PoolIdle

ParseResponse ==
    /\ ppc = "input"
    /\ data' = LoadRoot(response_text)
    /\ root_moments' = IF LoadRoot(response_text) = JNull THEN EarlyReturn
                       ELSE RootMoments(LoadRoot(response_text))
    /\ parsed' = ParseMomentResponse(response_text, Uuids(0))
    /\ parsed_wrapped' = ParseMomentResponse(wrapped_text, Uuids(8))
    /\ ppc' = "done"
    /\ UNCHANGED <<response_text, wrapped_text, wrap, extract_vars, store_vars>>

NextParse == ParseResponse

(***************************************************************************)
(* The responses the parser is run on.                                     *)
(***************************************************************************)
\* marks a key the model left out of an object
Absent == [t |-> "absent", n |-> 0, s |-> "", items |-> <<>>, keys |-> <<>>]

\* the object with the given keys, those marked Absent left out
RECURSIVE MkDict(_, _)
MkDict(ks, xs) ==
    IF ks = <<>> THEN EmptyDict
    ELSE LET rest == MkDict(Tail(ks), Tail(xs)) IN
         IF Head(xs) = Absent THEN rest
         ELSE JDict(<<Head(ks)>> \o rest.keys, <<Head(xs)>> \o rest.items)

SeqsUpTo(S, n) == UNION {[1..k -> S] : k \in 0..n}

QuoteOpts == {Absent, JStr("x"), JStr(""), JStr("a b c"), JNum(5), JNull}
TimestampOpts == {Absent, JStr("t"), JStr(""), JNull}
DurationOpts == {Absent, JNum(5), JNum(-1), JStr("12"), JStr("x")}
CaptionOpts == {Absent, JDict(<<"historian">>, <<JStr("x")>>), JStr("x"), JNull}

\* one entry of the moments list, every combination of the four fields
Entries ==
    {MkDict(<<"quote", "timestamps", "clip_duration_seconds", "persona_captions">>,
            <<q, ts, d, c>>) :
        q \in QuoteOpts, ts \in TimestampOpts, d \in DurationOpts, c \in CaptionOpts}

GoodMoment == JDict(<<"timestamps", "quote">>, <<JStr("t"), JStr("a b c")>>)
BasicEntries == {GoodMoment, JDict(<<"quote">>, <<JStr("x")>>), EmptyDict, JNum(5)}
\* entries that supply optional fields themselves
SuppliedEntries ==
    {JDict(<<"quote", "viral_trigger", "flags">>, <<JStr("x"), JStr("t"), JList(<<JStr("x")>>)>>),
     JDict(<<"quote", "viral_trigger", "flags">>, <<JStr("x"), JNull, JNull>>),
     JDict(<<"quote", "persona_captions">>,
           <<JStr("x"), JDict(<<"thomist", "historian">>, <<JStr("t"), JNum(5)>>)>>)}

Lists ==
    {JList(xs) : xs \in SeqsUpTo(BasicEntries, MaxItems)}
    \cup {JList(<<e>>) : e \in Entries \cup SuppliedEntries}

Scalars == {JNum(5), JNum(0), JNull, JStr("x"), JStr(""), JBool(TRUE), JBool(FALSE)}

\* values of a root object's `moments` key
MomentsVals == Lists \cup Scalars \cup {EmptyDict, GoodMoment}

Roots ==
    Lists
    \cup {JDict(<<"moments">>, <<v>>) : v \in MomentsVals}
    \cup {JDict(<<"moments", "quote">>, <<v, JStr("x")>>) :
            v \in Scalars \cup {JList(<<>>), JList(<<GoodMoment>>)}}
    \cup Entries
    \cup {JDict(<<"x">>, <<JNum(5)>>)}
    \cup Scalars

Prefixes(text) == {SubSeq(text, 1, k) : k \in 0..(Len(text) - 1)}

\* text that is not JSON: cut-off JSON and loose tokens
NonJson ==
    Prefixes(Render(JDict(<<"moments">>, <<JList(<<GoodMoment>>)>>)))
    \cup {<<Word>>, <<"}", "{">>, <<"]", "[">>, <<"{", Word, "}">>, <<"[", Word, "]">>,
          <<"[", "5", ",", "]">>, <<NL, " ">>}

ParseInputs == {Render(v) : v \in Roots} \cup NonJson

InitParse ==
    /\ response_text \in ParseInputs
    /\ wrapped_text = response_text
    /\ wrap = NoWrap
    /\ data = JNull
    /\ root_moments = EarlyReturn
    /\ parsed = NoResult
    /\ parsed_wrapped = NoResult
    /\ ppc = "input"
    /\ ExtractIdle
    /\ StoreIdle

SpecParse == InitParse /\ [][NextParse]_vars

(***************************************************************************)
(* Responses inside a code fence or inside prose.                          *)
(***************************************************************************)
\* a fence line (with or without a language tag), the text, a fence line
FenceWraps ==
    {[kind |-> "fence", pre |-> <<Fence>> \o tag \o <<NL>>, post |-> <<NL, Fence>>] :
        tag \in {<<>>, <<Word>>}}

\* what prose is made of: words, line ends, and the marks the parser looks for
ProseTok == {Word, NL, "{", "}", "[", "]", Fence}
ProseWraps ==
    {[kind |-> "prose", pre |-> a, post |-> b] :
        a \in SeqsUpTo(ProseTok, MaxProse), b \in SeqsUpTo(ProseTok, MaxProse)}

\* prose that opens with a fence mark on the line of the answer and goes on
\* after the answer's line
FenceLedProse ==
    {[kind |-> "prose", pre |-> <<Fence>> \o a, post |-> <<NL>> \o b] :
        a \in SeqsUpTo({Word, NL}, MaxProse), b \in SeqsUpTo({Word, NL}, MaxProse)}

\* JSON objects a model answers with
ObjectBases ==
    {Render(v) : v \in {JDict(<<"moments">>, <<JList(<<GoodMoment>>)>>),
                        JDict(<<"moments">>, <<JList(<<GoodMoment, JDict(<<"quote">>, <<JStr("x")>>)>>)>>),
                        JDict(<<"moments">>, <<JList(<<>>)>>),
                        GoodMoment,
                        EmptyDict}}

\* other answers: arrays, a scalar, text that is not JSON, a schema violation
OtherBases ==
    {Render(v) : v \in {JList(<<GoodMoment>>),
                        JList(<<GoodMoment, JDict(<<"quote">>, <<JStr("x")>>)>>),
                        JNum(5),
                        JDict(<<"moments">>, <<JNum(5)>>)}}
    \cup {<<>>, <<Word>>, <<Word, NL>> \o Render(GoodMoment)}

\* the answers, each also as the model sends it inside a fence of its own
FenceInputs ==
    (ObjectBases \cup OtherBases)
    \cup {<<Fence, NL>> \o t \o <<NL, Fence>> : t \in ObjectBases \cup OtherBases}

InitWrap ==
    /\ \/ wrap \in FenceWraps /\ response_text \in FenceInputs
       \/ wrap \in ProseWraps \cup FenceLedProse /\ response_text \in ObjectBases
    /\ wrapped_text = wrap.pre \o response_text \o wrap.post
    /\ data = JNull
    /\ root_moments = EarlyReturn
    /\ parsed = NoResult
    /\ parsed_wrapped = NoResult
    /\ ppc = "input"
    /\ ExtractIdle
    /\ StoreIdle

SpecWrap == InitWrap /\ [][NextParse]_vars

(***************************************************************************)
(* The file cache (src/cache_utils.py) as extract_moments uses it.         *)
(* A moment is carried through the orchestration as an opaque value.       *)
(***************************************************************************)
CACHE_ENABLED == TRUE

\* a cache file: missing, a well-formed record, or anything unreadable
NoFile == [state |-> "absent", moments |-> <<>>]
Record(moments) == [state |-> "valid", moments |-> moments]
Corrupt == [state |-> "corrupt", moments |-> <<>>]

FileOf(files, key) == IF key \in DOMAIN files THEN files[key] ELSE NoFile

\* a lookup that never finds the file
GetCachedMomentsMisses(files, text, fault) == [raised |-> FALSE, hit |-> FALSE, moments |-> <<>>]

\* lines 53-91: the cached list, or None; `fault` is an I/O error while reading.
\* Every exception is caught at line 89.
GetCachedMoments(files, text, fault) ==
    LET file == FileOf(files, BuildCacheKey(text)) IN
    IF ~CACHE_ENABLED \/ fault \/ file.state # "valid"
    THEN [raised |-> FALSE, hit |-> FALSE, moments |-> <<>>]
    ELSE [raised |-> FALSE, hit |-> TRUE, moments |-> file.moments]

\* lines 94-121: the cache after the store.  how = "ok": the record is written;
\* "open_fails": the file is not touched; "write_fails": the file was opened
\* (truncated) and the write broke off.  Every exception is caught at line 120.
SaveMomentsToCache(files, moments, text, how) ==
    LET key == BuildCacheKey(text) IN
    IF ~CACHE_ENABLED \/ how = "open_fails" THEN [raised |-> FALSE, files |-> files]
    ELSE IF how = "write_fails"
    THEN [raised |-> FALSE, files |-> [k \in DOMAIN files \cup {key} |-> IF k = key THEN Corrupt ELSE files[k]]]
    ELSE [raised |-> FALSE, files |-> [k \in DOMAIN files \cup {key} |-> IF k = key THEN Record(moments) ELSE files[k]]]

SaveHows == {"ok", "open_fails", "write_fails"}

(***************************************************************************)
(* _process_single_chunk and _process_chunks_parallel (src/llm_client.py). *)
(***************************************************************************)
MAX_PARALLEL_CHUNKS == 3
MOMENT_SAFETY_LIMIT == 5

\* What the LLM call and the parse of its answer do for one chunk: an
\* exception somewhere inside the try block (error), or n parsed moments.
LlmOutcomes ==
    {[error |-> TRUE, n |-> 0]}
    \cup {[error |-> FALSE, n |-> k] : k \in {0, 1, MOMENT_SAFETY_LIMIT + 1}}

NoOutcome == [error |-> FALSE, n |-> -1]

\* the moments parse_moment_response returns for chunk idx: the k-th moment
\* of chunk idx is the value [chunk |-> idx, k |-> k]
ParsedMoments(idx, n) == [k \in 1..n |-> [chunk |-> idx, k |-> k]]

\* a truncation that keeps the last MOMENT_SAFETY_LIMIT moments
TruncateKeepsLast(moments) ==
    IF Len(moments) > MOMENT_SAFETY_LIMIT
    THEN SubSeq(moments, Len(moments) - MOMENT_SAFETY_LIMIT + 1, Len(moments))
    ELSE moments

\* lines 211-214: keep the first MOMENT_SAFETY_LIMIT moments
Truncate(moments) ==
    IF Len(moments) > MOMENT_SAFETY_LIMIT THEN SubSeq(moments, 1, MOMENT_SAFETY_LIMIT)
    ELSE moments

\* lines 185-227: the value the task returns; the except clause of line 223
\* turns every exception into []
ProcessSingleChunk(idx, o) ==
    IF o.error THEN [exc |-> FALSE, value |-> <<>>]
    ELSE [exc |-> FALSE, value |-> Truncate(ParsedMoments(idx, o.n))]

\* line 246: the pool's max_workers
MaxWorkersPerChunk(chunk_list) == Len(chunk_list)
MaxWorkers(chunk_list) == MAX_PARALLEL_CHUNKS

\* a collector that overwrites the list instead of extending it
ExtendOverwrites(all, chunk_moments) == chunk_moments
\* a collector that takes one moment per chunk
ExtendFirstOnly(all, chunk_moments) == Append(all, chunk_moments[1])
\* line 256: all_moments.extend(chunk_moments)
Extend(all, chunk_moments) == all \o chunk_moments

\* lines 253-258: `all_moments` after one completed future
CollectFuture(all, f) ==
    IF f.exc THEN all
    ELSE IF f.value # <<>> THEN Extend(all, f.value)
    ELSE all

Running == {i \in 1..Len(chunks) : task[i] = "running"}
NoFuture == [exc |-> FALSE, value |-> <<>>]

\* line 248: executor.submit for the next chunk, in list order
Submit ==
    /\ pc = "submit"
    /\ submitted < Len(chunks)
    /\ submitted' = submitted + 1
    /\ task' = [task EXCEPT ![submitted + 1] = "queued"]
    /\ UNCHANGED <<transcript, max_chunk_chars, chunks, pc, cache, result,
                   future, outcome, order, all_moments, parser_vars, store_vars>>

\* line 251: every chunk is submitted, the collecting loop starts
StartCollecting ==
    /\ pc = "submit"
    /\ submitted = Len(chunks)
    /\ pc' = "collect"
    /\ UNCHANGED <<transcript, max_chunk_chars, chunks, cache, result, pool_vars, parser_vars, store_vars>>

\* a worker thread of the pool takes the oldest queued task
TaskStart(i) ==
    /\ task[i] = "queued"
    /\ \A j \in 1..(i - 1) : task[j] # "queued"
    /\ Cardinality(Running) < MaxWorkers(chunks)
    /\ task' = [task EXCEPT ![i] = "running"]
    /\ UNCHANGED <<transcript, max_chunk_chars, chunks, pc, cache, result,
                   submitted, future, outcome, order, all_moments, parser_vars, store_vars>>

\* a task that adds its moments to the shared list itself
TaskFinishAppends(i) ==
    /\ task[i] = "running"
    /\ \E o \in LlmOutcomes :
        /\ outcome' = [outcome EXCEPT ![i] = o]
        /\ future' = [future EXCEPT ![i] = ProcessSingleChunk(i, o)]
        /\ all_moments' = Extend(all_moments, ProcessSingleChunk(i, o).value)
    /\ task' = [task EXCEPT ![i] = "done"]
    /\ UNCHANGED <<transcript, max_chunk_chars, chunks, pc, cache, result,
                   submitted, order, parser_vars, store_vars>>

\* the task's _process_single_chunk call ends and sets its future
TaskFinish(i) ==
    /\ task[i] = "running"
    /\ \E o \in LlmOutcomes :
        /\ outcome' = [outcome EXCEPT ![i] = o]
        /\ future' = [future EXCEPT ![i] = ProcessSingleChunk(i, o)]
    /\ task' = [task EXCEPT ![i] = "done"]
    /\ UNCHANGED <<transcript, max_chunk_chars, chunks, pc, cache, result,
                   submitted, order, all_moments, parser_vars, store_vars>>

\* lines 251-258: as_completed yields a finished future, its moments are added
Collect(i) ==
    /\ pc = "collect"
    /\ task[i] = "done"
    /\ \A k \in 1..Len(order) : order[k] # i
    /\ order' = Append(order, i)
    /\ all_moments' = CollectFuture(all_moments, future[i])
    /\ UNCHANGED <<transcript, max_chunk_chars, chunks, pc, cache, result,
                   submitted, task, future, outcome, parser_vars, store_vars>>

\* a return that does not wait for the tasks: shutdown(wait=False) after a
\* loop that stops early
JoinWithoutWaiting ==
    /\ pc = "collect"
    /\ pc' = "joined"
    /\ UNCHANGED <<transcript, max_chunk_chars, chunks, cache, result, pool_vars, parser_vars, store_vars>>

\* line 260: every future was yielded, the pool shuts down, the function returns
Join ==
    /\ pc = "collect"
    /\ Len(order) = Len(chunks)
    /\ pc' = "joined"
    /\ UNCHANGED <<transcript, max_chunk_chars, chunks, cache, result, pool_vars, parser_vars, store_vars>>

NextPool ==
    \/ Submit
    \/ StartCollecting
    \/ \E i \in 1..Len(chunks) : TaskStart(i)
    \/ \E i \in 1..Len(chunks) : TaskFinish(i)
    \/ \E i \in 1..Len(chunks) : Collect(i)
    \/ Join

\* the pool's variables at line 239, for a list of n chunks
PoolStart(n) ==
    /\ submitted = 0
    /\ task = [i \in 1..n |-> "new"]
    /\ future = [i \in 1..n |-> NoFuture]
    /\ outcome = [i \in 1..n |-> NoOutcome]
    /\ order = <<>>
    /\ all_moments = <<>>

\* _process_chunks_parallel on its own, on any list of chunks
InitPool ==
    /\ transcript = None
    /\ max_chunk_chars = 1
    /\ chunks \in {[i \in 1..n |-> <<"a">>] : n \in 0..MaxChunks}
    /\ pc = "submit"
    /\ cache = <<>>
    /\ result = <<>>
    /\ PoolStart(Len(chunks))
    /\ ParserIdle
    /\ StoreIdle

SpecPool == InitPool /\ [][NextPool]_vars

\* The same under fair scheduling: the calling thread runs on (Submit,
\* StartCollecting, Collect, Join), an idle worker thread takes a queued task
\* (TaskStart), and every LLM call returns or fails at some time (TaskFinish).
SpecPoolFair ==
    /\ InitPool
    /\ [][NextPool]_vars
    /\ WF_vars(Submit)
    /\ WF_vars(StartCollecting)
    /\ WF_vars(\E i \in 1..Len(chunks) : TaskStart(i))
    /\ WF_vars(\E i \in 1..Len(chunks) : TaskFinish(i))
    /\ WF_vars(\E i \in 1..Len(chunks) : Collect(i))
    /\ WF_vars(Join)

(***************************************************************************)
(* extract_moments (src/llm_client.py, lines 133-182).                     *)
(***************************************************************************)
\* lines 143-145: an empty transcript raises RuntimeError
RaiseEmpty ==
    /\ pc = "start"
    /\ Stripped(transcript) = <<>>
    /\ pc' = "raised"
    /\ UNCHANGED <<transcript, max_chunk_chars, chunks, cache, result, pool_vars, parser_vars, store_vars>>

\* lines 147-150: the cache lookup; a hit ends the call
CacheLookup ==
    /\ pc = "start"
    /\ Stripped(transcript) # <<>>
    /\ \E fault \in BOOLEAN :
        LET r == GetCachedMoments(cache, Stripped(transcript), fault) IN
        /\ pc' = IF r.raised THEN "raised" ELSE IF r.hit THEN "returned" ELSE "chunk"
        /\ result' = IF r.hit THEN r.moments ELSE result
        /\ faultfree' = (faultfree /\ ~fault)
    /\ UNCHANGED <<transcript, max_chunk_chars, chunks, cache, pool_vars, parser_vars>>
    /\ UNCHANGED <<id_vars, key_vars, disk, writer, lookup, stored, sequential, cache_raised, run_vars, tool_vars>>

\* lines 152-166: the chunking step
ChunkStep ==
    /\ pc = "chunk"
    /\ chunks' = ChunkTranscript(Stripped(transcript), max_chunk_chars)
    /\ pc' = "submit"
    /\ submitted' = 0
    /\ task' = [i \in 1..Len(chunks') |-> "new"]
    /\ future' = [i \in 1..Len(chunks') |-> NoFuture]
    /\ outcome' = [i \in 1..Len(chunks') |-> NoOutcome]
    /\ order' = <<>>
    /\ all_moments' = <<>>
    /\ UNCHANGED <<transcript, max_chunk_chars, cache, result, parser_vars, store_vars>>

\* a run that raises, as the docstring has it, when no moment was found
NoMomentsRaises(all) == [raised |-> all = <<>>, moments |-> <<>>]
\* lines 175-177: no moment from any chunk: the empty list is returned
NoMoments(all) == [raised |-> FALSE, moments |-> <<>>]

\* a run that stores its empty list before it returns
ReturnEmptySaves ==
    /\ pc = "joined"
    /\ all_moments = <<>>
    /\ pc' = "returned"
    /\ result' = <<>>
    /\ cache' = SaveMomentsToCache(cache, <<>>, Stripped(transcript), "ok").files
    /\ zero_run' = zero_run \cup {BuildCacheKey(Stripped(transcript))}
    /\ UNCHANGED <<transcript, max_chunk_chars, chunks, pool_vars, parser_vars>>
    /\ UNCHANGED <<id_vars, key_vars, cache_vars, call_no, kept, cache_at_start, tool_vars>>

\* lines 175-177
ReturnEmpty ==
    /\ pc = "joined"
    /\ all_moments = <<>>
    /\ pc' = IF NoMoments(all_moments).raised THEN "raised" ELSE "returned"
    /\ result' = NoMoments(all_moments).moments
    /\ zero_run' = zero_run \cup {BuildCacheKey(Stripped(transcript))}
    /\ UNCHANGED <<transcript, max_chunk_chars, chunks, cache, pool_vars, parser_vars>>
    /\ UNCHANGED <<id_vars, key_vars, cache_vars, call_no, kept, cache_at_start, tool_vars>>

\* history: the store of `moments` under the key of `text`, completed in call n
Kept(old, text, moments, n) ==
    [k \in DOMAIN old \cup {BuildCacheKey(text)} |->
        IF k = BuildCacheKey(text) THEN [moments |-> moments, call |-> n] ELSE old[k]]

\* lines 179-182: store the moments, return them
SaveAndReturn ==
    /\ pc = "joined"
    /\ all_moments # <<>>
    /\ \E how \in SaveHows :
        LET r == SaveMomentsToCache(cache, all_moments, Stripped(transcript), how) IN
        /\ cache' = r.files
        /\ pc' = IF r.raised THEN "raised" ELSE "returned"
        /\ faultfree' = (faultfree /\ how = "ok")
        /\ kept' = IF how = "ok" THEN Kept(kept, Stripped(transcript), all_moments, call_no)
                   ELSE kept
    /\ result' = all_moments
    /\ zero_run' = zero_run \ {BuildCacheKey(Stripped(transcript))}
    /\ UNCHANGED <<transcript, max_chunk_chars, chunks, pool_vars, parser_vars>>
    /\ UNCHANGED <<id_vars, key_vars, disk, writer, lookup, stored, sequential, cache_raised,
                   call_no, cache_at_start, tool_vars>>

NextExtract ==
    \/ RaiseEmpty
    \/ CacheLookup
    \/ ChunkStep
    \/ ReturnEmpty
    \/ SaveAndReturn

Next == NextExtract \/ NextPool

\* a moment list an earlier run may have stored
StoredMoments == <<[chunk |-> 0, k |-> 1]>>

Init ==
    /\ transcript \in StringsUpTo(MaxShort) \cup {None}
    /\ max_chunk_chars \in 1..MaxChunkChars
    /\ chunks = <<>>
    /\ pc = "start"
    /\ \E file \in {NoFile, Record(StoredMoments), Record(<<>>), Corrupt} :
        cache = IF file = NoFile THEN <<>>
                ELSE [k \in {BuildCacheKey(Stripped(transcript))} |-> file]
    /\ result = <<>>
    /\ PoolIdle
    /\ ParserIdle
    /\ FilesIdle
    /\ ToolIdle
    /\ call_no = 1
    /\ kept = <<>>
    /\ zero_run = {}
    /\ cache_at_start = cache

Spec == Init /\ [][Next]_vars

(***************************************************************************)
(* Several calls of extract_moments, one after the other, on one cache     *)
(* directory, with clear_cache (cache_utils.py lines 124-137) in between.  *)
(***************************************************************************)
MaxCalls == 3

\* transcripts of the calls: the first two have the same key material, the
\* last is empty once stripped
RunTranscripts == {<<"a">>, <<" ", "a">>, <<"a", NL, "b">>, <<" ">>}

\* the caller calls extract_moments again
NewCall ==
    /\ pc \in {"returned", "raised"}
    /\ call_no < MaxCalls
    /\ transcript' \in RunTranscripts
    /\ pc' = "start"
    /\ chunks' = <<>>
    /\ result' = <<>>
    /\ submitted' = 0
    /\ task' = <<>>
    /\ future' = <<>>
    /\ outcome' = <<>>
    /\ order' = <<>>
    /\ all_moments' = <<>>
    /\ call_no' = call_no + 1
    /\ cache_at_start' = cache
    /\ UNCHANGED <<max_chunk_chars, cache, parser_vars, id_vars, key_vars, cache_vars, kept, zero_run, tool_vars>>

\* cache_utils.py lines 124-137: clear_cache between two calls removes every file
ClearCache ==
    /\ pc \in {"returned", "raised"}
    /\ cache # <<>>
    /\ cache' = <<>>
    /\ kept' = <<>>
    /\ UNCHANGED <<transcript, max_chunk_chars, chunks, pc, result, pool_vars, parser_vars>>
    /\ UNCHANGED <<id_vars, key_vars, cache_vars, call_no, zero_run, cache_at_start, tool_vars>>

NextRuns == Next \/ NewCall \/ ClearCache

InitRuns ==
    /\ transcript \in RunTranscripts
    /\ max_chunk_chars = 1
    /\ chunks = <<>>
    /\ pc = "start"
    /\ \E file \in {NoFile, Record(StoredMoments), Corrupt} :
        cache = IF file = NoFile THEN <<>>
                ELSE [k \in {BuildCacheKey(<<"a">>)} |-> file]
    /\ result = <<>>
    /\ PoolIdle
    /\ ParserIdle
    /\ FilesIdle
    /\ ToolIdle
    /\ call_no = 1
    /\ kept = <<>>
    /\ zero_run = {}
    /\ cache_at_start = cache

SpecRuns == InitRuns /\ [][NextRuns]_vars

\* the chunking step on its own: extract_moments from line 152 on, for every
\* transcript that reaches it
InitChunk ==
    /\ transcript \in {t \in StringsUpTo(MaxLen) : Strip(t) # <<>>}
    /\ max_chunk_chars \in 1..MaxChunkChars
    /\ chunks = <<>>
    /\ pc = "chunk"
    /\ cache = <<>>
    /\ result = <<>>
    /\ PoolIdle
    /\ ParserIdle
    /\ StoreIdle

SpecChunk == InitChunk /\ [][ChunkStep]_vars

(***************************************************************************)
(* _build_cache_key on two requests.                                       *)
(***************************************************************************)
ComputeKeys ==
    /\ req # <<>>
    /\ keys = <<>>
    /\ keys' = [i \in 1..2 |-> BuildCacheKeyFor(req[i].text, req[i].metadata)]
    /\ UNCHANGED <<extract_vars, parser_vars, id_vars, req, cache_vars, run_vars, tool_vars>>

InitKeys ==
    /\ ExtractIdle
    /\ ParserIdle
    /\ run_ids = <<>>
    /\ run_chunks = 0
    /\ req \in [1..2 -> KeyRequests]
    /\ keys = <<>>
    /\ disk = <<>>
    /\ writer = <<>>
    /\ lookup = <<>>
    /\ stored = <<>>
    /\ sequential = TRUE
    /\ faultfree = TRUE
    /\ cache_raised = FALSE
    /\ RunIdle
    /\ ToolIdle

SpecKeys == InitKeys /\ [][ComputeKeys]_vars

(***************************************************************************)
(* The cache directory at the level of file contents: save_moments_to_cache,*)
(* get_cached_moments and clear_cache of src/cache_utils.py, called in any *)
(* order and, for the stores, overlapping in time.  A file's text is the   *)
(* token sequence of its JSON record (json.dump's indentation left out).   *)
(* A store is two steps, as the operating system sees it: open(path, "w"), *)
(* which creates or empties the file, and the write of the record when the *)
(* `with` block ends, at the writer's own file position 0.                 *)
(***************************************************************************)
\* the keys in use: one made from a transcript, one from a video identity
DiskKeys ==
    {BuildCacheKey(<<"a">>),
     BuildCacheKeyFor(<<"a">>, JDict(<<"video_id">>, <<JStr("v")>>))}

\* the moment lists given to save_moments_to_cache: one moment, two moments
\* (extract_moments never stores an empty list: line 175 returns first)
StoreLists ==
    {<<JDict(<<"quote">>, <<JStr("x")>>)>>,
     <<GoodMoment, JDict(<<"quote">>, <<JStr("t")>>)>>}

\* the two calls of save_moments_to_cache that may be in progress
Writers == {1, 2}

\* lines 109-113: cache_data
CacheData(key, moments) ==
    JDict(<<"cache_key", "moments_count", "moments">>,
          <<JStr(key), JNum(Len(moments)), JList(moments)>>)

\* line 116: the text json.dump writes
RecordText(key, moments) == Render(CacheData(key, moments))

\* an open that leaves the old text of the file in place
OpenKeepsText(text) == text
\* line 115: open(cache_path, "w") empties the file
OpenForWriting(text) == <<>>

\* a write at position 0 of a file that holds `old`: what lies beyond the new
\* text stays
WriteAtStart(old, new) ==
    IF Len(old) > Len(new) THEN new \o SubSeq(old, Len(new) + 1, Len(old)) ELSE new

\* where a write that fails breaks off: before the first token, or half way
FaultCuts(text) == {0, Len(text) \div 2}

NoLookup == <<>>
IdleWriter == [st |-> "idle", key |-> "", moments |-> <<>>, unlinked |-> FALSE]
SomeWriterOpen == \E w \in Writers : writer[w].st = "open"

\* a reader that takes any JSON list found in the file for the moments
ReadRecordAnyList(text) ==
    LET r == JsonLoads(text) IN
    IF ~r.ok THEN [raised |-> FALSE, hit |-> FALSE, moments |-> <<>>]
    ELSE IF r.val.t = "list" THEN [raised |-> FALSE, hit |-> TRUE, moments |-> r.val.items]
    ELSE IF r.val.t # "dict" \/ ~HasKey(r.val, "moments")
    THEN [raised |-> FALSE, hit |-> FALSE, moments |-> <<>>]
    ELSE [raised |-> FALSE, hit |-> TRUE, moments |-> Get(r.val, "moments", JNull).items]

\* lines 73-87 on the text of an existing file; json.load's error is caught at
\* line 89
ReadRecord(text) ==
    LET r == JsonLoads(text) IN
    IF ~r.ok THEN [raised |-> FALSE, hit |-> FALSE, moments |-> <<>>]
    ELSE IF r.val.t # "dict" \/ ~HasKey(r.val, "moments")
    THEN [raised |-> FALSE, hit |-> FALSE, moments |-> <<>>]
    ELSE IF Get(r.val, "moments", JNull).t # "list"
    THEN [raised |-> FALSE, hit |-> FALSE, moments |-> <<>>]
    ELSE [raised |-> FALSE, hit |-> TRUE, moments |-> Get(r.val, "moments", JNull).items]

\* lines 63-91: get_cached_moments for a key; `fault` is an I/O error on the way
LookupKey(files, key, fault) ==
    IF ~CACHE_ENABLED \/ fault \/ key \notin DOMAIN files
    THEN [raised |-> FALSE, hit |-> FALSE, moments |-> <<>>]
    ELSE ReadRecord(files[key])

\* the directory with the file of `key` holding `text`
WithFile(files, key, text) ==
    [k \in DOMAIN files \cup {key} |-> IF k = key THEN text ELSE files[k]]
\* the directory without the files of the keys in `gone`
WithoutFiles(files, gone) == [k \in DOMAIN files \ gone |-> files[k]]

\* get_cached_moments, one call
Lookup ==
    \E key \in DiskKeys, fault \in BOOLEAN :
        LET r == LookupKey(disk, key, fault) IN
        /\ lookup' = [key |-> key, fault |-> fault, hit |-> r.hit, moments |-> r.moments]
        /\ cache_raised' = (cache_raised \/ r.raised)
        /\ sequential' = (sequential /\ ~SomeWriterOpen)
        /\ faultfree' = (faultfree /\ ~fault)
        /\ UNCHANGED <<disk, writer, stored>>
        /\ UNCHANGED <<extract_vars, parser_vars, id_vars, key_vars, run_vars, tool_vars>>

\* save_moments_to_cache up to line 115: the file is opened, or the open fails
\* and the call returns (line 120)
SaveOpen(w) ==
    /\ writer[w].st = "idle"
    /\ CACHE_ENABLED
    /\ \E key \in DiskKeys, moments \in StoreLists, fails \in BOOLEAN :
         /\ disk' = IF fails THEN disk
                    ELSE WithFile(disk, key,
                                  OpenForWriting(IF key \in DOMAIN disk THEN disk[key] ELSE <<>>))
         /\ writer' = IF fails THEN writer
                      ELSE [writer EXCEPT ![w] = [st |-> "open", key |-> key,
                                                   moments |-> moments, unlinked |-> FALSE]]
         /\ faultfree' = (faultfree /\ ~fails)
    /\ sequential' = (sequential /\ ~SomeWriterOpen)
    /\ lookup' = NoLookup
    /\ UNCHANGED <<stored, cache_raised>>
    /\ UNCHANGED <<extract_vars, parser_vars, id_vars, key_vars, run_vars, tool_vars>>

\* lines 116-118: the record is written and the file closed; a write that
\* fails leaves what it wrote before the fault (line 120)
SaveWrite(w) ==
    /\ writer[w].st = "open"
    /\ LET key == writer[w].key
           text == RecordText(key, writer[w].moments)
           lands == ~writer[w].unlinked
       IN \E fails \in BOOLEAN :
            \E cut \in IF fails THEN FaultCuts(text) ELSE {Len(text)} :
              /\ disk' = IF lands
                         THEN WithFile(disk, key, WriteAtStart(disk[key], SubSeq(text, 1, cut)))
                         ELSE disk
              /\ stored' = IF lands /\ ~fails
                           THEN WithFile(stored, key, JList(writer[w].moments))
                           ELSE stored
              /\ faultfree' = (faultfree /\ ~fails)
    /\ writer' = [writer EXCEPT ![w] = IdleWriter]
    /\ lookup' = NoLookup
    /\ UNCHANGED <<sequential, cache_raised>>
    /\ UNCHANGED <<extract_vars, parser_vars, id_vars, key_vars, run_vars, tool_vars>>

\* lines 124-137: clear_cache removes the files; a fault stops it after some
\* of them.  A file a store still has open is removed from the directory and
\* the store's write no longer reaches it.
Clear ==
    /\ \E fails \in BOOLEAN :
         \E gone \in IF fails THEN (SUBSET DOMAIN disk) \ {DOMAIN disk} ELSE {DOMAIN disk} :
           /\ disk' = WithoutFiles(disk, gone)
           /\ stored' = WithoutFiles(stored, gone)
           /\ writer' = [w \in Writers |->
                           IF writer[w].st = "open" /\ writer[w].key \in gone
                           THEN [writer[w] EXCEPT !.unlinked = TRUE] ELSE writer[w]]
           /\ faultfree' = (faultfree /\ ~fails)
    /\ sequential' = (sequential /\ ~SomeWriterOpen)
    /\ lookup' = NoLookup
    /\ UNCHANGED cache_raised
    /\ UNCHANGED <<extract_vars, parser_vars, id_vars, key_vars, run_vars, tool_vars>>

NextCache ==
    \/ Lookup
    \/ \E w \in Writers : SaveOpen(w)
    \/ \E w \in Writers : SaveWrite(w)
    \/ Clear

\* files found in the directory that no store of this program wrote whole
ForeignTexts ==
    {<<>>, <<"{">>, <<"5">>, Render(JList(<<GoodMoment>>)),
     Render(JDict(<<"cache_key">>, <<JStr("x")>>)),
     Render(JDict(<<"moments">>, <<JNum(5)>>)),
     Render(JDict(<<"moments">>, <<JNull>>))}

InitCache ==
    /\ ExtractIdle
    /\ ParserIdle
    /\ run_ids = <<>>
    /\ run_chunks = 0
    /\ req = <<>>
    /\ keys = <<>>
    /\ \/ disk = <<>>
       \/ \E key \in DiskKeys, text \in ForeignTexts : disk = [k \in {key} |-> text]
    /\ faultfree = TRUE
    /\ writer = [w \in Writers |-> IdleWriter]
    /\ lookup = NoLookup
    /\ stored = <<>>
    /\ sequential = TRUE
    /\ cache_raised = FALSE
    /\ RunIdle
    /\ ToolIdle

SpecCache == InitCache /\ [][NextCache]_vars

(***************************************************************************)
(* The ids of one run: every chunk's response is parsed by its own call of *)
(* parse_moment_response, which takes str(uuid.uuid4())[:8] for each entry *)
(* (extraction.py line 87).  uuid4 is random: a call may return any value, *)
(* and the first eight hex digits of two values may be the same.           *)
(***************************************************************************)
\* the values str(uuid.uuid4())[:8] can take (2^32 in the program)
IdSpace == {"u1", "u2"}
\* the ids drawn in one call of parse_moment_response, one per mapping entry
UuidDraws == [1..MaxItems -> IdSpace]

\* responses of a chunk: one moment, two moments, a dropped entry and a moment
IdResponses ==
    {Render(JList(<<GoodMoment>>)),
     Render(JList(<<GoodMoment, JDict(<<"quote">>, <<JStr("x")>>)>>)),
     Render(JList(<<EmptyDict, GoodMoment>>))}

\* the `id` fields of a moment list
IdsOf(moments) == [i \in 1..Len(moments) |-> Get(moments[i], "id", JNull).s]

\* llm_client.py lines 209-221 and 254-256 for one chunk: parse the response,
\* truncate, extend the run's list
ParseChunk ==
    /\ run_chunks < MaxChunks
    /\ \E text \in IdResponses, uuids \in UuidDraws :
         LET r == ParseMomentResponse(text, uuids) IN
         run_ids' = run_ids \o (IF r.raised THEN <<>> ELSE IdsOf(Truncate(r.moments)))
    /\ run_chunks' = run_chunks + 1
    /\ UNCHANGED <<extract_vars, parser_vars, key_vars, cache_vars, run_vars, tool_vars>>

InitIds ==
    /\ ExtractIdle
    /\ ParserIdle
    /\ StoreIdle

SpecIds == InitIds /\ [][ParseChunk]_vars

(***************************************************************************)
(* Timestamp texts (src/export_utils.py, src/clipping.py).  A text is the  *)
(* sequence of its fields, the parts between the colons.  A field is a run *)
(* of digits (int), digits with a fraction of two digits (dec, its value   *)
(* in centiseconds), digits with a fraction of three digits (ms, its value *)
(* in milliseconds), or anything else (junk).  The empty text is <<>>.     *)
(***************************************************************************)
IntF(n) == [kind |-> "int", v |-> n]
DecF(cs) == [kind |-> "dec", v |-> cs]
MsF(ms) == [kind |-> "ms", v |-> ms]
JunkF == [kind |-> "junk", v |-> 0]

\* int(field) does not raise
IsInt(f) == f.kind = "int"
\* float(field) does not raise
IsFloat(f) == f.kind \in {"int", "dec", "ms"}
\* float(field), in centiseconds (the formats of lines 78 and 99 keep two decimals)
FloatCs(f) ==
    IF f.kind = "int" THEN f.v * 100
    ELSE IF f.kind = "dec" THEN f.v
    ELSE (f.v + 5) \div 10

(***************************************************************************)
(* to_ffmpeg_json (src/export_utils.py, lines 59-152).  Seconds are        *)
(* counted in centiseconds.                                                *)
(***************************************************************************)
\* lines 62-78
normalize_timestamp(ts) ==
    IF Len(ts) \notin {2, 3} THEN ts
    ELSE LET h == IF Len(ts) = 2 THEN IntF(0) ELSE ts[1]
             m == ts[Len(ts) - 1]
             s == ts[Len(ts)]
         IN IF IsInt(h) /\ IsInt(m) /\ IsFloat(s)
            THEN <<IntF(h.v), IntF(m.v), DecF(FloatCs(s))>>
            ELSE ts

\* lines 80-92: 0.0 for a text that cannot be read
timestamp_to_seconds(ts) ==
    IF Len(ts) = 2 /\ IsInt(ts[1]) /\ IsFloat(ts[2])
    THEN ts[1].v * 6000 + FloatCs(ts[2])
    ELSE IF Len(ts) = 3 /\ IsInt(ts[1]) /\ IsInt(ts[2]) /\ IsFloat(ts[3])
    THEN ts[1].v * 360000 + ts[2].v * 6000 + FloatCs(ts[3])
    ELSE 0

\* lines 94-99
seconds_to_timestamp(secs) ==
    <<IntF(secs \div 360000), IntF((secs % 360000) \div 6000), DecF(secs % 6000)>>

\* the `timestamps` field of a moment: None (or no key), or a text made of a
\* start, a separator and an end
NoTimestamps == [kind |-> "none", start |-> <<>>, sep |-> "", end |-> <<>>]
RangeText(start, sep, end) == [kind |-> "text", start |-> start, sep |-> sep, end |-> end]

\* the characters of the text are all of [0-9:.], and there is one at least
DigitsOnly(ts) == ts # <<>> /\ \A k \in 1..Len(ts) : ts[k].kind # "junk"

\* lines 114 and 131: re.match of digits, colons and dots, a hyphen or an
\* en dash, and digits, colons and dots again
RangeMatch(t) ==
    /\ t.kind = "text"
    /\ t.sep \in {"-", "en dash"}
    /\ DigitsOnly(t.start)
    /\ DigitsOnly(t.end)

\* the `editor_cut_sheet` of a moment, as far as to_ffmpeg_json reads it
NoSheet == [present |-> FALSE, clip_label |-> "", in_point |-> <<>>, out_point |-> <<>>]
Sheet(label, in, out) ==
    [present |-> TRUE, clip_label |-> label, in_point |-> in, out_point |-> out]

\* clip_duration_seconds: None (or no key), or a number of centiseconds
NoDuration == [known |-> FALSE, v |-> 0]
Duration(cs) == [known |-> TRUE, v |-> cs]

\* line 139: the buffer, 4.0 seconds
END_BUFFER == 400

\* lines 103-150 for the moment at position idx: the clip, or skip (`continue`)
ExportClip(idx, moment) ==
    LET cut_sheet == moment.editor_cut_sheet
        label == IF cut_sheet.clip_label # "" THEN cut_sheet.clip_label ELSE "CLIP_" \o ToString(idx)
        in_point == cut_sheet.in_point
        m == RangeMatch(moment.timestamps)
        start_raw == IF in_point # <<>> THEN in_point ELSE moment.timestamps.start
        start_sec == timestamp_to_seconds(normalize_timestamp(start_raw))
        clip_duration == moment.clip_duration_seconds
        fallback == ~clip_duration.known \/ clip_duration.v <= 0
        out_point == cut_sheet.out_point
        end_sec == IF ~fallback THEN start_sec + clip_duration.v + END_BUFFER
                   ELSE IF out_point # <<>>
                   THEN timestamp_to_seconds(normalize_timestamp(out_point))
                   ELSE timestamp_to_seconds(normalize_timestamp(moment.timestamps.end))
        made == [index |-> idx, label |-> label,
                 start |-> seconds_to_timestamp(start_sec),
                 end |-> seconds_to_timestamp(end_sec)]
    IN IF in_point = <<>> /\ ~m THEN [skip |-> TRUE, clip |-> made]
       ELSE IF fallback /\ out_point = <<>> /\ ~m THEN [skip |-> TRUE, clip |-> made]
       ELSE [skip |-> FALSE, clip |-> made]

\* lines 101-152: the loop over enumerate(moments_with_cuts, 1), from idx on
RECURSIVE ExportLoop(_, _)
ExportLoop(moments, idx) ==
    IF idx > Len(moments) THEN <<>>
    ELSE LET c == ExportClip(idx, moments[idx])
         IN (IF c.skip THEN <<>> ELSE <<c.clip>>) \o ExportLoop(moments, idx + 1)

to_ffmpeg_json(moments) == ExportLoop(moments, 1)

ToFfmpegJson ==
    /\ tpc = "export"
    /\ ffmpeg_clips' = to_ffmpeg_json(moments_with_cuts)
    /\ tpc' = "exported"
    /\ UNCHANGED <<extract_vars, parser_vars, id_vars, key_vars, cache_vars, run_vars,
                   moments_with_cuts, sheet_vars, clip_vars>>

\* in-points and out-points: 01:05.50, 01:02:03, and a point with a remark
\* after it, 00:12:05 (on 'the')
GoodIn == <<IntF(1), DecF(550)>>
GoodOut == <<IntF(1), IntF(2), IntF(3)>>
RemarkIn == <<IntF(0), IntF(12), JunkF>>

ExportSheets ==
    {NoSheet, Sheet("", <<>>, <<>>), Sheet("L", GoodIn, GoodOut), Sheet("L", GoodIn, <<>>),
     Sheet("", RemarkIn, <<>>)}

\* 00:10-00:20.25 with an en dash, 00:10 - 00:20 (with spaces), 90-120
\* (seconds), none
ExportTimestamps ==
    {NoTimestamps,
     RangeText(<<IntF(0), IntF(10)>>, "en dash", <<IntF(0), DecF(2025)>>),
     RangeText(<<IntF(0), IntF(10)>>, " - ", <<IntF(0), IntF(20)>>),
     RangeText(<<IntF(90)>>, "-", <<IntF(120)>>)}

ExportDurations == {NoDuration, Duration(0), Duration(550)}

ExportMoments ==
    {[editor_cut_sheet |-> c, timestamps |-> t, clip_duration_seconds |-> d] :
        c \in ExportSheets, t \in ExportTimestamps, d \in ExportDurations}

MaxClips == 2

InitExport ==
    /\ ExtractIdle
    /\ ParserIdle
    /\ FilesIdle
    /\ RunIdle
    /\ SheetIdle
    /\ ClipIdle
    /\ moments_with_cuts \in SeqsUpTo(ExportMoments, MaxClips)
    /\ ffmpeg_clips = <<>>
    /\ tpc = "export"

SpecExport == InitExport /\ [][ToFfmpegJson]_vars

(***************************************************************************)
(* parse_cut_sheet_response (src/cutsheets.py, lines 121-326).  The        *)
(* response text is the sequence of its lines; a line is the MOMENT HEADER *)
(* line, the EDITOR CUT SHEET line, a field line `- name: value`, an empty *)
(* line, or other text.  A cut sheet is kept by the fields clip_label,     *)
(* in_point, out_point and crop_note.                                      *)
(***************************************************************************)
Line(kind, name, label, point) == [kind |-> kind, name |-> name, label |-> label, point |-> point]
HeaderLine == Line("header", "", "", <<>>)
SectionLine == Line("section", "", "", <<>>)
BlankLine == Line("blank", "", "", <<>>)
ProseLine == Line("prose", "", "", <<>>)
LabelLine(label) == Line("field", "clip_label", label, <<>>)
PointLine(name, point) == Line("field", name, "", point)

\* the block without the empty lines at its end, which the \s* of the
\* pattern takes
RECURSIVE DropBlankEnd(_)
DropBlankEnd(lines) ==
    IF lines # <<>> /\ lines[Len(lines)].kind = "blank"
    THEN DropBlankEnd(SubSeq(lines, 1, Len(lines) - 1))
    ELSE lines

\* line 134: re.split(r'\n\s*(?=MOMENT HEADER)', response_text): the text is
\* cut before every MOMENT HEADER line that has a line break before it, so
\* not before a header that is the first line; the lines before the first
\* cut are the first block
RECURSIVE SplitBlocks(_, _, _)
SplitBlocks(lines, k, current) ==
    IF k > Len(lines) THEN <<current>>
    ELSE IF lines[k].kind = "header" /\ k > 1
    THEN <<DropBlankEnd(current)>> \o SplitBlocks(lines, k + 1, <<lines[k]>>)
    ELSE SplitBlocks(lines, k + 1, Append(current, lines[k]))

ReSplit(lines) == SplitBlocks(lines, 1, <<>>)

\* lines 164-180: the dictionary parse_single_cut_sheet_block starts from
DefaultSheet == [clip_label |-> "", in_point |-> <<>>, out_point |-> <<>>, crop_note |-> ""]

\* lines 185-232 for one line
SheetLine(state, line) ==
    IF line.kind = "blank" THEN state
    ELSE IF line.kind = "section" THEN [state EXCEPT !.in_cut_sheet_section = TRUE]
    ELSE IF state.in_cut_sheet_section /\ line.kind = "field"
    THEN IF line.name = "clip_label" THEN [state EXCEPT !.cut_sheet.clip_label = line.label]
         ELSE IF line.name = "in_point" THEN [state EXCEPT !.cut_sheet.in_point = line.point]
         ELSE IF line.name = "out_point" THEN [state EXCEPT !.cut_sheet.out_point = line.point]
         ELSE state
    ELSE state

RECURSIVE SheetLines(_, _, _)
SheetLines(state, lines, k) ==
    IF k > Len(lines) THEN state
    ELSE SheetLines(SheetLine(state, lines[k]), lines, k + 1)

\* lines 155-234
parse_single_cut_sheet_block(block) ==
    SheetLines([cut_sheet |-> DefaultSheet, in_cut_sheet_section |-> FALSE], block, 1).cut_sheet

\* line 143: `if cut_sheet:` a dictionary is true when it has a key
SheetIsTrue(cut_sheet) == DOMAIN cut_sheet # {}

\* line 300: the separators create_fallback_cut_sheet splits at: a hyphen,
\* an en dash or an em dash, with or without spaces around it
FallbackSeparators == {"-", "en dash", "em dash", " - "}

\* line 307-308: the label made from viral_trigger, or MOMENT
FallbackLabel(moment) == IF moment.viral_trigger = "" THEN "MOMENT" ELSE "VT"

\* lines 288-326; `in` applied to None at line 300 raises TypeError
create_fallback_cut_sheet(moment) ==
    IF moment.timestamps.kind = "none" THEN [raised |-> TRUE, cut_sheet |-> DefaultSheet]
    ELSE LET split == moment.timestamps.sep \in FallbackSeparators IN
         [raised |-> FALSE,
          cut_sheet |-> [clip_label |-> FallbackLabel(moment),
                         in_point |-> IF split THEN moment.timestamps.start ELSE <<>>,
                         out_point |-> IF split THEN moment.timestamps.end ELSE <<>>,
                         crop_note |-> "medium shot, standard framing"]]

\* line 138 and 144/148: the copy of the moment with its cut sheet
WithSheet(moment, cut_sheet) ==
    [k \in DOMAIN moment \cup {"editor_cut_sheet"} |->
        IF k = "editor_cut_sheet" THEN cut_sheet ELSE moment[k]]

\* lines 137-150 for the moment at position i (1-based here)
MergeOne(blocks, i, moment) ==
    LET parsed_sheet == parse_single_cut_sheet_block(blocks[i])
        fallback == create_fallback_cut_sheet(moment)
    IN IF i <= Len(blocks) /\ SheetIsTrue(parsed_sheet)
       THEN [raised |-> FALSE, moment |-> WithSheet(moment, parsed_sheet)]
       ELSE [raised |-> fallback.raised, moment |-> WithSheet(moment, fallback.cut_sheet)]

\* lines 121-152
parse_cut_sheet_response(lines, moments) ==
    LET blocks == ReSplit(lines)
        merged == [i \in 1..Len(moments) |-> MergeOne(blocks, i, moments[i])]
    IN IF \E i \in 1..Len(moments) : merged[i].raised
       THEN [raised |-> TRUE, moments |-> <<>>]
       ELSE [raised |-> FALSE, moments |-> [i \in 1..Len(moments) |-> merged[i].moment]]

ParseCutSheetResponse ==
    /\ tpc = "merge"
    /\ updated_moments' = parse_cut_sheet_response(response, original_moments)
    /\ tpc' = "merged"
    /\ UNCHANGED <<extract_vars, parser_vars, id_vars, key_vars, cache_vars, run_vars,
                   export_vars, response, original_moments, clip_vars>>

\* the n-th block of a response, with the cut sheet the prompt asks for, or
\* with no EDITOR CUT SHEET section
FullBlock(n) ==
    <<HeaderLine, ProseLine, BlankLine, SectionLine, LabelLine("L" \o ToString(n)),
      PointLine("in_point", <<IntF(0), IntF(n)>>), PointLine("out_point", <<IntF(0), IntF(10 + n)>>)>>
BareBlock(n) == <<HeaderLine, ProseLine>>

MaxSheets == 2

\* responses: nothing, a sentence or an empty line before the first MOMENT
\* HEADER, then up to MaxSheets blocks with an empty line between them
Preambles == {<<>>, <<ProseLine, BlankLine>>, <<BlankLine>>}
BlockLists ==
    UNION {[1..n -> {"full", "bare"}] : n \in 0..MaxSheets}
BlockText(kinds) ==
    Flatten([n \in 1..Len(kinds) |->
                (IF kinds[n] = "full" THEN FullBlock(n) ELSE BareBlock(n)) \o <<BlankLine>>])
Responses == {pre \o BlockText(kinds) : pre \in Preambles, kinds \in BlockLists}

\* timestamps of a moment: None, the empty text, 00:20-00:30, 00:20 - 00:30
SheetTimestamps ==
    {NoTimestamps, RangeText(<<>>, "", <<>>),
     RangeText(<<IntF(0), IntF(20)>>, "-", <<IntF(0), IntF(30)>>),
     RangeText(<<IntF(0), IntF(20)>>, " - ", <<IntF(0), IntF(30)>>)}

SheetMoment(i, timestamps, trigger) ==
    [id |-> "m" \o ToString(i), quote |-> "q", timestamps |-> timestamps, viral_trigger |-> trigger]

SheetMomentLists ==
    UNION {{[i \in 1..n |-> SheetMoment(i, ts[i], vt[i])] :
                ts \in [1..n -> SheetTimestamps], vt \in [1..n -> {"", "vt"}]} : n \in 0..MaxSheets}

InitSheets ==
    /\ ExtractIdle
    /\ ParserIdle
    /\ FilesIdle
    /\ RunIdle
    /\ ExportIdle
    /\ ClipIdle
    /\ response \in Responses
    /\ original_moments \in SheetMomentLists
    /\ updated_moments = <<>>
    /\ tpc = "merge"

SpecSheets == InitSheets /\ [][ParseCutSheetResponse]_vars

(***************************************************************************)
(* The clipper (src/clipping.py).  Seconds are counted in milliseconds;    *)
(* the texts are those _seconds_to_timestamp (HH:MM:SS.mmm) and            *)
(* to_ffmpeg_json (HH:MM:SS.xx) write.                                     *)
(***************************************************************************)
\* len(str(ms)) at line 46
NumDigits(n) == IF n < 10 THEN 1 ELSE IF n < 100 THEN 2 ELSE IF n < 1000 THEN 3 ELSE 4

\* the groups (\d+) before and after the dot of the seconds field; a field
\* with no fraction is read by the second pattern, with ms = "0"
SecondsGroup(f) ==
    IF f.kind = "int" THEN f.v ELSE IF f.kind = "dec" THEN f.v \div 100 ELSE f.v \div 1000
FractionGroup(f) ==
    IF f.kind = "int" THEN 0 ELSE IF f.kind = "dec" THEN f.v % 100 ELSE f.v % 1000

\* lines 28-46: int(ms) drops the zeros in front, and the divisor is chosen
\* by the number of digits that are left
TimestampToSeconds(ts) ==
    IF Len(ts) \notin {2, 3} \/ \E k \in 1..Len(ts) : ts[k].kind = "junk" THEN 0
    ELSE LET h == IF Len(ts) = 3 THEN ts[1].v ELSE 0
             m_ == ts[Len(ts) - 1].v
             s == SecondsGroup(ts[Len(ts)])
             ms == FractionGroup(ts[Len(ts)])
         IN h * 3600000 + m_ * 60000 + s * 1000
                + (IF NumDigits(ms) = 3 THEN ms ELSE ms * 10)

\* lines 48-53, for a whole number of milliseconds
SecondsToTimestamp(secs) ==
    <<IntF(secs \div 3600000), IntF((secs % 3600000) \div 60000), MsF(secs % 60000)>>

\* lines 60-61
pre_roll == 1000
post_roll == 2000

Larger(a, b) == IF a >= b THEN a ELSE b

\* _seconds_to_timestamp of a time
FormatTime ==
    /\ tpc = "format"
    /\ t_text' = SecondsToTimestamp(t_ms)
    /\ tpc' = "parse"
    /\ UNCHANGED <<extract_vars, parser_vars, id_vars, key_vars, cache_vars, run_vars,
                   export_vars, sheet_vars, t_ms, t_back, clip, padded, seek>>

\* _timestamp_to_seconds of the text
ParseTime ==
    /\ tpc = "parse"
    /\ t_back' = TimestampToSeconds(t_text)
    /\ tpc' = "pad"
    /\ UNCHANGED <<extract_vars, parser_vars, id_vars, key_vars, cache_vars, run_vars,
                   export_vars, sheet_vars, t_ms, t_text, clip, padded, seek>>

\* cut_from_ffmpeg_json, lines 67-76, for one clip
PadClip ==
    /\ tpc = "pad"
    /\ LET start_sec == Larger(0, TimestampToSeconds(clip.start) - pre_roll)
           end_sec == Larger(start_sec, TimestampToSeconds(clip.end) + post_roll)
       IN padded' = [start |-> SecondsToTimestamp(start_sec), end |-> SecondsToTimestamp(end_sec)]
    /\ tpc' = "cut"
    /\ UNCHANGED <<extract_vars, parser_vars, id_vars, key_vars, cache_vars, run_vars,
                   export_vars, sheet_vars, t_ms, t_text, t_back, clip, seek>>

\* cut_video, lines 13-26, called at line 80 with the padded texts
CutVideo ==
    /\ tpc = "cut"
    /\ LET start_sec == TimestampToSeconds(padded.start)
           end_sec == TimestampToSeconds(padded.end)
       IN seek' = [ss |-> start_sec, t |-> Larger(0, end_sec - start_sec)]
    /\ tpc' = "clipped"
    /\ UNCHANGED <<extract_vars, parser_vars, id_vars, key_vars, cache_vars, run_vars,
                   export_vars, sheet_vars, t_ms, t_text, t_back, clip, padded>>

NextClip == FormatTime \/ ParseTime \/ PadClip \/ CutVideo

MaxMillis == 150

\* the times of the clips, in centiseconds
ClipTimes == {0, 50, 105, 150, 805, 1000}

InitClip ==
    /\ ExtractIdle
    /\ ParserIdle
    /\ FilesIdle
    /\ RunIdle
    /\ ExportIdle
    /\ SheetIdle
    /\ t_ms \in 0..MaxMillis
    /\ t_text = <<>>
    /\ t_back = 0
    /\ \E a \in ClipTimes, b \in ClipTimes :
        clip = [start_cs |-> a, end_cs |-> b,
                start |-> seconds_to_timestamp(a), end |-> seconds_to_timestamp(b)]
    /\ padded = <<>>
    /\ seek = <<>>
    /\ tpc = "format"

SpecClip == InitClip /\ [][NextClip]_vars

(***************************************************************************)
(* The chunker's claims.                                                   *)
(***************************************************************************)
Chunked == pc \in {"submit", "collect", "joined"} \/ (pc = "returned" /\ chunks # <<>>)

\* the lines of every chunk, in chunk order
ChunkLines == Flatten([i \in 1..Len(chunks) |-> SplitNL(chunks[i])])

\* C1: the lines of the chunks, concatenated in chunk order, are exactly the
\* lines of the (stripped) transcript: nothing dropped, duplicated, reordered
\* or split.
C1_Lossless ==
    Chunked => ChunkLines = SplitLines(Stripped(transcript))

\* C1 witness: a transcript of three lines cut into two or more chunks
C1_Witness ==
    /\ Chunked
    /\ Len(chunks) >= 2
    /\ Len(SplitLines(Stripped(transcript))) >= 3

\* C2: a chunk whose text is longer than CHARS_PER_CHUNK holds exactly one line
C2_OversizeIsSingleLine ==
    Chunked =>
        \A i \in 1..Len(chunks) :
            Len(chunks[i]) > max_chunk_chars => Len(SplitNL(chunks[i])) = 1

(***************************************************************************)
(* The orchestrator's claims.                                              *)
(***************************************************************************)
\* the moments _process_single_chunk returned for chunk i
ChunkMoments(i) == Truncate(ParsedMoments(i, outcome[i].n))
Occurs(m) == \E p \in 1..Len(all_moments) : all_moments[p] = m

\* C3: when _process_chunks_parallel has returned, every chunk was processed,
\* a chunk whose task failed has no moment in the list, every moment of every
\* other chunk is in the list, and no state before the return is stuck
C3_FailureIsolation ==
    /\ pc = "joined" =>
        \A i \in 1..Len(chunks) :
            /\ task[i] = "done"
            /\ outcome[i].error =>
                 \A p \in 1..Len(all_moments) : all_moments[p].chunk # i
            /\ ~outcome[i].error =>
                 \A k \in 1..Len(ChunkMoments(i)) : Occurs(ChunkMoments(i)[k])
    /\ pc \in {"submit", "collect"} => ENABLED NextPool
    /\ pc # "raised"

\* C3 witness: three or more chunks, one failed, one gave moments, and the
\* call has returned
C3_Witness ==
    /\ pc = "joined"
    /\ Len(chunks) >= 3
    /\ \E i \in 1..Len(chunks) : outcome[i].error
    /\ \E i \in 1..Len(chunks) : ~outcome[i].error /\ outcome[i].n > 0
    /\ all_moments # <<>>

\* C4: at most MAX_PARALLEL_CHUNKS chunk tasks are in flight
C4_BoundedInFlight == Cardinality(Running) <= MAX_PARALLEL_CHUNKS

\* C4 witness: the pool is full while another chunk waits in the queue
C4_Witness ==
    /\ Cardinality(Running) = MAX_PARALLEL_CHUNKS
    /\ \E i \in 1..Len(chunks) : task[i] = "queued"

\* the futures' lists, concatenated in the chunk order perm
RECURSIVE ConcatIn(_, _)
ConcatIn(perm, k) ==
    IF k > Len(chunks) THEN <<>> ELSE future[perm[k]].value \o ConcatIn(perm, k + 1)

\* C5: the returned list is the concatenation of the per-chunk lists in some
\* order of the chunks
C5_ConcatenationInSomeOrder ==
    pc = "joined" =>
        \E perm \in Permutations(1..Len(chunks)) : all_moments = ConcatIn(perm, 1)

\* C5 witness: two chunks gave moments and the later chunk was collected first
C5_Witness ==
    /\ pc = "joined"
    /\ Len(order) >= 2
    /\ order[1] > order[2]
    /\ future[order[1]].value # <<>>
    /\ Len(future[order[2]].value) > 1

EraseIds(moments) == [i \in 1..Len(moments) |-> DictSet(moments[i], "id", JStr(""))]
\* two outcomes equal on every field except `id`
SameButIds(a, b) == a.raised = b.raised /\ EraseIds(a.moments) = EraseIds(b.moments)

\* whether a text, trimmed, opens with a code fence
StartsWithFence(text) == Strip(text) # <<>> /\ Head(Strip(text)) = Fence

\* C8 as stated: for every text T, T inside one code fence parses to the same
\* moment list as T, ids apart
C8_FenceAnyText ==
    (ppc = "done" /\ wrap.kind = "fence") => SameButIds(parsed_wrapped, parsed)

\* C8 amended: the same, for every T that does not itself open with a code fence
C8_FenceUnfencedText ==
    (ppc = "done" /\ wrap.kind = "fence" /\ ~StartsWithFence(response_text))
        => SameButIds(parsed_wrapped, parsed)

\* C8 witness: a fenced answer with a language tag that yields two moments
C8_Witness ==
    /\ ppc = "done"
    /\ wrap.kind = "fence"
    /\ Len(wrap.pre) = 3
    /\ ~StartsWithFence(response_text)
    /\ ~parsed_wrapped.raised
    /\ Len(parsed_wrapped.moments) = 2

\* whether the response is a valid JSON object on its own
IsJsonObject(text) == JsonLoads(text).ok /\ JsonLoads(text).val.t = "dict"

\* prose without a brace
NoBrace(prose) == \A i \in 1..Len(prose) : prose[i] \notin {"{", "}"}

\* C9 as stated: a valid JSON object with any prose before and after it
\* parses to the moment list of the object alone, ids apart
C9_ObjectInAnyProse ==
    (ppc = "done" /\ wrap.kind = "prose" /\ IsJsonObject(response_text))
        => SameButIds(parsed_wrapped, parsed)

\* C9 amended: the same, when the prose holds no brace, the text does not open
\* with a code fence and the text as a whole is not valid JSON itself
C9_ObjectInBraceFreeProse ==
    (/\ ppc = "done"
     /\ wrap.kind = "prose"
     /\ IsJsonObject(response_text)
     /\ NoBrace(wrap.pre) /\ NoBrace(wrap.post)
     /\ ~StartsWithFence(wrapped_text)
     /\ ~JsonLoads(wrapped_text).ok)
        => SameButIds(parsed_wrapped, parsed)

\* C9 witness: an object between a word and a word, found by the search and
\* yielding its two moments
C9_Witness ==
    /\ ppc = "done"
    /\ wrap.kind = "prose"
    /\ wrap.pre = <<Word>>
    /\ wrap.post = <<Word>>
    /\ IsJsonObject(response_text)
    /\ Len(parsed_wrapped.moments) = 2

\* C7: parse_moment_response never raises, and text in which no JSON is found
\* gives the empty list
C7_NeverRaises ==
    ppc = "done" =>
        /\ ~parsed.raised
        /\ data = JNull => parsed.moments = <<>>

\* C10: the candidate list is the root array itself, or exactly the value of
\* the `moments` key when the root object has one, or the root object alone
\* when it has no `moments` key but a `quote` or `timestamps`; any other root
\* gives the empty list
C10_RootNormalisation ==
    ppc = "done" =>
        /\ data.t = "list" => root_moments = data
        /\ (data.t = "dict" /\ HasKey(data, "moments"))
              => root_moments = Get(data, "moments", JNull)
        /\ (data.t = "dict" /\ ~HasKey(data, "moments")
                /\ (HasKey(data, "quote") \/ HasKey(data, "timestamps")))
              => root_moments = JList(<<data>>)
        /\ (\/ data.t \notin {"list", "dict"}
            \/ /\ data.t = "dict"
               /\ ~HasKey(data, "moments")
               /\ ~HasKey(data, "quote")
               /\ ~HasKey(data, "timestamps"))
              => parsed = NoResult

(***************************************************************************)
(* The normaliser's claims: what each returned moment holds.               *)
(***************************************************************************)
\* the entries the loop of line 81 goes through
Candidates ==
    IF root_moments = EarlyReturn \/ ~Iterable(root_moments) THEN <<>>
    ELSE IterItems(root_moments)

\* a candidate that line 82 and line 92 let through: a mapping with a `quote`
\* that is not missing and not empty
HasQuote(c) == c.t = "dict" /\ Truthy(Get(c, "quote", JNull))
Survivors == SelectSeq(Candidates, HasQuote)

Returned == ppc = "done" /\ ~parsed.raised

\* the value of persona key k the model gave in candidate c, or the empty string
SuppliedCaption(c, k) ==
    IF HasKey(c, "persona_captions") /\ HasKey(Get(c, "persona_captions", EmptyDict), k)
    THEN Get(Get(c, "persona_captions", EmptyDict), k, JNull)
    ELSE JStr("")

\* C11: the returned moments are the candidates with a non-empty quote, one for
\* one; each has a non-empty string `quote` and a `persona_captions` mapping
\* with all six keys, the model's value where it gave one and "" elsewhere
C11_QuoteAndPersonas ==
    Returned =>
        /\ Len(parsed.moments) = Len(Survivors)
        /\ \A i \in 1..Len(parsed.moments) :
             LET m == parsed.moments[i]
                 captions == Get(m, "persona_captions", JNull)
             IN /\ Get(m, "quote", JNull).t = "str"
                /\ Get(m, "quote", JNull).s # ""
                /\ captions.t = "dict"
                /\ \A k \in 1..Len(PersonaKeys) :
                     /\ HasKey(captions, PersonaKeys[k])
                     /\ Get(captions, PersonaKeys[k], JNull) = SuppliedCaption(Survivors[i], PersonaKeys[k])

\* C11 witness: a returned moment whose model gave two captions, one of them
\* not a string, and left four out
C11_Witness ==
    /\ Returned
    /\ Len(parsed.moments) = 1
    /\ SuppliedCaption(Survivors[1], "thomist") = JStr("t")
    /\ SuppliedCaption(Survivors[1], "historian") = JNum(5)
    /\ Get(Get(parsed.moments[1], "persona_captions", EmptyDict), "catholic", JNull) = JStr("")

\* the number of words of a returned moment's quote
QuoteWords(m) == WordCount(Get(m, "quote", JStr("")).s)
\* the model's estimate in candidate c: 0 when absent, zero or not a number
Estimate(c) == LlmDuration(Get(c, "clip_duration_seconds", JNum(0)))

\* C12: clip_duration_seconds is max(E, floor(10 N / 26)), a non-negative integer
C12_Duration ==
    Returned =>
        \A i \in 1..Len(parsed.moments) :
            LET m == parsed.moments[i]
                d == Get(m, "clip_duration_seconds", JNull)
                E == Estimate(Survivors[i])
                F == (10 * QuoteWords(m)) \div 26
            IN /\ i <= Len(Survivors)
               /\ d.t = "num"
               /\ d.n = (IF E >= F THEN E ELSE F)
               /\ d.n >= 0

\* C12 witness: a three-word quote with a negative estimate: the words win
C12_Witness ==
    /\ Returned
    /\ Len(parsed.moments) = 1
    /\ QuoteWords(parsed.moments[1]) = 3
    /\ Estimate(Survivors[1]) = -1
    /\ Get(parsed.moments[1], "clip_duration_seconds", JNull) = JNum(1)

\* the fields the normaliser never writes when the model gave them
ModelFields(c) ==
    {c.keys[k] : k \in 1..Len(c.keys)} \ {"id", "clip_duration_seconds", "persona_captions"}

\* C13: the returned moments are the surviving candidates in the order of the
\* response, each with the fields the model gave it
C13_SurvivorsInOrder ==
    Returned =>
        /\ Len(parsed.moments) = Len(Survivors)
        /\ \A i \in 1..Len(parsed.moments) :
             \A k \in ModelFields(Survivors[i]) :
                 Get(parsed.moments[i], k, JNull) = Get(Survivors[i], k, JNull)

\* C13 witness: two different survivors with a dropped candidate between them
C13_Witness ==
    /\ Returned
    /\ Len(Candidates) = 3
    /\ HasQuote(Candidates[1]) /\ ~HasQuote(Candidates[2]) /\ HasQuote(Candidates[3])
    /\ Get(Candidates[1], "quote", JNull) # Get(Candidates[3], "quote", JNull)
    /\ Len(parsed.moments) = 2

\* whether candidate c leaves `timestamps` out: no key, null or ""
TimestampsMissing(c) ==
    \/ ~HasKey(c, "timestamps")
    \/ Get(c, "timestamps", JNull) = JNull
    \/ Get(c, "timestamps", JNull) = JStr("")

\* the value of field k in returned moment m when candidate c left k out
Backfilled(m, c, k, empty) == ~HasKey(c, k) => Get(m, k, JNull) = empty

\* C15: a survivor without timestamps is returned with timestamps "", and
\* every returned moment has viral_trigger, why_it_hits, energy_tag ("" when
\* left out) and flags ([] when left out)
C15_TimestampsAndBackfill ==
    Returned =>
        /\ Len(parsed.moments) = Len(Survivors)
        /\ \A i \in 1..Len(parsed.moments) :
             LET m == parsed.moments[i]
                 c == Survivors[i]
             IN /\ TimestampsMissing(c) => Get(m, "timestamps", JNull) = JStr("")
                /\ HasKey(m, "viral_trigger") /\ Backfilled(m, c, "viral_trigger", JStr(""))
                /\ HasKey(m, "why_it_hits") /\ Backfilled(m, c, "why_it_hits", JStr(""))
                /\ HasKey(m, "energy_tag") /\ Backfilled(m, c, "energy_tag", JStr(""))
                /\ HasKey(m, "flags") /\ Backfilled(m, c, "flags", JList(<<>>))

(***************************************************************************)
(* The claim about ids.                                                    *)
(***************************************************************************)
\* C14: the ids of the moments of one run are pairwise distinct
C14_DistinctIds ==
    \A i, j \in 1..Len(run_ids) : i # j => run_ids[i] # run_ids[j]

(***************************************************************************)
(* The claim about the per-chunk safety limit.                             *)
(***************************************************************************)
\* C16: a finished chunk task returned at most MOMENT_SAFETY_LIMIT moments:
\* the first MOMENT_SAFETY_LIMIT of the parsed list when it is longer, the
\* parsed list itself otherwise; the run's list holds at most
\* MOMENT_SAFETY_LIMIT moments per chunk
C16_SafetyLimit ==
    /\ \A i \in 1..Len(chunks) :
         (task[i] = "done" /\ ~outcome[i].error) =>
             LET all == ParsedMoments(i, outcome[i].n) IN
             /\ Len(future[i].value) <= MOMENT_SAFETY_LIMIT
             /\ Len(all) > MOMENT_SAFETY_LIMIT =>
                    future[i].value = SubSeq(all, 1, MOMENT_SAFETY_LIMIT)
             /\ Len(all) <= MOMENT_SAFETY_LIMIT => future[i].value = all
    /\ Len(all_moments) <= Len(chunks) * MOMENT_SAFETY_LIMIT

\* C16 witness: a run of two or more chunks, every response over the limit,
\* that returned the limit for each chunk
C16_Witness ==
    /\ pc = "joined"
    /\ Len(chunks) >= 2
    /\ \A i \in 1..Len(chunks) : ~outcome[i].error /\ outcome[i].n > MOMENT_SAFETY_LIMIT
    /\ Len(all_moments) = Len(chunks) * MOMENT_SAFETY_LIMIT

(***************************************************************************)
(* The claims about the cache key.                                         *)
(***************************************************************************)
\* whether a request carries an identity: metadata with a non-empty video id
HasIdentity(r) == Truthy(r.metadata) /\ Truthy(Get(r.metadata, "video_id", JStr("")))
\* the identity: video id and language ("en" when the metadata has none)
IdentityOf(r) == <<Get(r.metadata, "video_id", JNull), Get(r.metadata, "language", JStr("en"))>>

\* C18: two requests with an identity and the same id and language have the
\* same key whatever their texts; two requests without identity and with the
\* same text have the same key; a key made from an identity is never the key
\* made from a text
C18_KeyDerivation ==
    keys # <<>> =>
        /\ (HasIdentity(req[1]) /\ HasIdentity(req[2]) /\ IdentityOf(req[1]) = IdentityOf(req[2]))
              => keys[1] = keys[2]
        /\ (~HasIdentity(req[1]) /\ ~HasIdentity(req[2]) /\ req[1].text = req[2].text)
              => keys[1] = keys[2]
        /\ (HasIdentity(req[1]) /\ ~HasIdentity(req[2])) => keys[1] # keys[2]

\* C18 witness: the same video and language with two different transcripts
\* gives one key
C18_Witness ==
    /\ keys # <<>>
    /\ HasIdentity(req[1]) /\ HasIdentity(req[2])
    /\ IdentityOf(req[1]) = IdentityOf(req[2])
    /\ req[1].text # req[2].text
    /\ keys[1] = keys[2]

(***************************************************************************)
(* The claims about the cache.                                             *)
(***************************************************************************)
\* the lookup just made answers as a map would: the list of the last store
\* that completed under the key since the last clear, None when there is none
AnswersAsMap ==
    IF lookup.key \in DOMAIN stored
    THEN lookup.hit /\ JList(lookup.moments) = stored[lookup.key]
    ELSE ~lookup.hit

\* C17: with no I/O fault and no two cache calls overlapping, every lookup
\* returns the list of the most recent store under its key since the last
\* clear, and None for a key without one
C17_CacheIsMap ==
    (lookup # NoLookup /\ sequential /\ faultfree) => AnswersAsMap

\* C17 witness: both keys stored, one after the other, and the lookup of one
\* returns its one-moment list while the other key holds two moments
C17_Witness ==
    /\ lookup # NoLookup /\ sequential /\ faultfree
    /\ DOMAIN stored = DiskKeys
    /\ lookup.hit
    /\ Len(lookup.moments) = 1
    /\ \E k \in DiskKeys : k # lookup.key /\ Len(stored[k].items) = 2

\* whether a file's text is a record get_cached_moments accepts: a JSON object
\* whose `moments` is a list
WellFormed(text) ==
    /\ JsonLoads(text).ok
    /\ JsonLoads(text).val.t = "dict"
    /\ HasKey(JsonLoads(text).val, "moments")
    /\ Get(JsonLoads(text).val, "moments", JNull).t = "list"

\* C19: no cache call lets an exception out, and a lookup returns None when
\* an I/O fault occurs, when the file is missing, is not JSON, is not an
\* object with a `moments` key, or has a `moments` that is not a list
C19_NoCacheException ==
    /\ ~cache_raised
    /\ lookup # NoLookup =>
         ((\/ lookup.fault
           \/ lookup.key \notin DOMAIN disk
           \/ ~WellFormed(disk[lookup.key])) => ~lookup.hit)

\* C19 witness: after a fault, the lookup of a file that is JSON but whose
\* `moments` is no list returned None
C19_Witness ==
    /\ lookup # NoLookup
    /\ ~faultfree
    /\ ~lookup.fault
    /\ lookup.key \in DOMAIN disk
    /\ JsonLoads(disk[lookup.key]).ok
    /\ HasKey(JsonLoads(disk[lookup.key]).val, "moments")
    /\ ~lookup.hit
    /\ ~cache_raised

\* C20: without I/O faults, once every store has finished, the lookup of a
\* key returns the list of the store that wrote last under it, also when
\* stores overlapped; and a lookup at any time returns None or a whole list
\* that was given to a store
C20_LastWriterWins ==
    /\ (lookup # NoLookup /\ faultfree /\ ~SomeWriterOpen) => AnswersAsMap
    /\ (lookup # NoLookup /\ faultfree /\ lookup.hit) => lookup.moments \in StoreLists


(***************************************************************************)
(* Claims about repeated calls of extract_moments (SpecRuns).              *)
(***************************************************************************)
\* the cache key of the call in progress
CallKey == BuildCacheKey(Stripped(transcript))

\* the call in progress comes after a call that stored a list under its key
AfterStore == CallKey \in DOMAIN kept /\ kept[CallKey].call < call_no

\* C23: with the cache enabled and no cache fault, once a call has returned
\* a non-empty list and stored it, every later call with the same key
\* material (until clear_cache) returns a list equal to the stored one, and
\* neither chunks the transcript nor calls the LLM.
C23_LaterCallsHit ==
    (faultfree /\ Stripped(transcript) # <<>> /\ AfterStore) =>
        /\ pc \in {"start", "returned"}
        /\ chunks = <<>>
        /\ submitted = 0
        /\ outcome = <<>>
        /\ pc = "returned" => (result = kept[CallKey].moments /\ result # <<>>)

\* a later call, with a transcript other than the storing call's but the
\* same key material, has returned the stored list
C23_Witness ==
    /\ faultfree
    /\ AfterStore
    /\ pc = "returned"
    /\ transcript = <<" ", "a">>
    /\ result = kept[CallKey].moments
    /\ result # <<>>
    /\ chunks = <<>>

\* C26: a run that finds no moment writes nothing to the cache: the cache
\* after it is the cache the call began with (an entry stored earlier under
\* the key included), and, with no cache fault, the next call with the same
\* key material misses and dispatches its chunks again.
C26_ZeroRunWritesNothing ==
    /\ [][(pc = "joined" /\ all_moments = <<>> /\ pc' # "joined") =>
              (pc' = "returned" /\ result' = <<>> /\ cache' = cache_at_start)]_vars
    /\ []((faultfree /\ pc = "returned" /\ CallKey \in zero_run) =>
              (chunks # <<>> /\ Len(order) = Len(chunks)))

\* a second zero-moment run for a key: it dispatched again, and the entry an
\* earlier process stored under the key is as it was
C26_Witness ==
    /\ call_no >= 2
    /\ pc = "returned"
    /\ CallKey \in zero_run
    /\ CallKey \in DOMAIN cache_at_start
    /\ chunks # <<>>
    /\ Len(order) = Len(chunks)
    /\ result = <<>>
    /\ cache = cache_at_start


(***************************************************************************)
(* Claims about the threads of _process_chunks_parallel.                   *)
(***************************************************************************)
Collected == {order[k] : k \in 1..Len(order)}

\* a step of the collecting thread that takes the finished future of chunk i
CollectorAdds(i) ==
    /\ pc = "collect"
    /\ task[i] = "done"
    /\ i \notin Collected
    /\ order' = Append(order, i)
    /\ all_moments' = all_moments \o future[i].value
    /\ task' = task
    /\ future' = future

\* a step of the worker of chunk i: it sets its own future and nothing shared
WorkerEnds(i) ==
    /\ task[i] = "running"
    /\ task'[i] = "done"
    /\ \A j \in (1..Len(chunks)) \ {i} : task'[j] = task[j] /\ future'[j] = future[j]
    /\ all_moments' = all_moments
    /\ order' = order

C25_DispatchAndTermination ==
    /\ [](\A i \in 1..Len(chunks) : (task[i] # "new") <=> (i <= submitted))
    /\ [][/\ submitted' \in {submitted, submitted + 1}
          /\ \A i \in 1..Len(chunks) :
                /\ task[i] = "new" => task'[i] \in {"new", "queued"}
                /\ task[i] = "queued" => task'[i] \in {"queued", "running"}
                /\ task[i] = "running" => task'[i] \in {"running", "done"}
                /\ task[i] = "done" => task'[i] = "done"]_vars
    /\ <>(pc = "joined")
    /\ [](pc = "joined" => \A i \in 1..Len(chunks) : task[i] = "done" /\ i \in Collected)

\* the function has returned after more chunks than worker threads, one of
\* them failed, and the chunks completed out of list order
C25_Witness ==
    /\ pc = "joined"
    /\ Len(chunks) > MAX_PARALLEL_CHUNKS
    /\ \A i \in 1..Len(chunks) : task[i] = "done"
    /\ \E i \in 1..Len(chunks) : outcome[i].error
    /\ \E k \in 1..(Len(order) - 1) : order[k] > order[k + 1]


(***************************************************************************)
(* Claims about to_ffmpeg_json (SpecExport).                               *)
(***************************************************************************)
\* C21: the clips carry the indexes 1, 2, ..., n in output order, n the
\* number of clips, also when input moments were skipped.
C21_IndexesGapless ==
    tpc = "exported" => \A k \in 1..Len(ffmpeg_clips) : ffmpeg_clips[k].index = k

\* the text can be read as a time: MM:SS or HH:MM:SS, with an optional
\* fraction of the seconds
Readable(ts) ==
    \/ Len(ts) = 2 /\ IsInt(ts[1]) /\ IsFloat(ts[2])
    \/ Len(ts) = 3 /\ IsInt(ts[1]) /\ IsInt(ts[2]) /\ IsFloat(ts[3])

\* the time a readable text means, in centiseconds
TimeOf(ts) ==
    IF Len(ts) = 2 THEN ts[1].v * 6000 + FloatCs(ts[2])
    ELSE ts[1].v * 360000 + ts[2].v * 6000 + FloatCs(ts[3])

\* the text the claim takes the start from: the in_point when it is not
\* empty, else the start of the raw range
StartText(moment) ==
    IF moment.editor_cut_sheet.in_point # <<>> THEN moment.editor_cut_sheet.in_point
    ELSE IF RangeMatch(moment.timestamps) THEN moment.timestamps.start
    ELSE <<>>

\* the text the claim takes the end from when no positive duration is known
EndText(moment) ==
    IF moment.editor_cut_sheet.out_point # <<>> THEN moment.editor_cut_sheet.out_point
    ELSE IF RangeMatch(moment.timestamps) THEN moment.timestamps.end
    ELSE <<>>

PositiveDuration(moment) ==
    moment.clip_duration_seconds.known /\ moment.clip_duration_seconds.v > 0

\* the moment has a usable start, and a usable end
Usable(moment) ==
    /\ Readable(StartText(moment))
    /\ PositiveDuration(moment) \/ Readable(EndText(moment))

StartOf(moment) == TimeOf(StartText(moment))

EndOf(moment) ==
    IF PositiveDuration(moment)
    THEN StartOf(moment) + moment.clip_duration_seconds.v + END_BUFFER
    ELSE TimeOf(EndText(moment))

\* the clips made from the moment at position i
ClipsOf(i) == {k \in 1..Len(ffmpeg_clips) : ffmpeg_clips[k].index = i}

\* C22: a moment is exported with the start and the end of the derivation
\* rule (in_point, else the start of the raw range; start + duration +
\* buffer for a positive duration, else out_point, else the end of the raw
\* range), and a moment with no usable start, or no usable end, is omitted.
C22_StartAndEnd ==
    tpc = "exported" =>
        \A i \in 1..Len(moments_with_cuts) :
            LET moment == moments_with_cuts[i] IN
            IF ~Usable(moment)
            THEN ClipsOf(i) = {}
            ELSE /\ ClipsOf(i) # {}
                 /\ \A k \in ClipsOf(i) :
                        /\ TimeOf(ffmpeg_clips[k].start) = StartOf(moment)
                        /\ TimeOf(ffmpeg_clips[k].end) = EndOf(moment)


(***************************************************************************)
(* Claims about parse_cut_sheet_response (SpecSheets).                     *)
(***************************************************************************)
SheetKeys == {"clip_label", "in_point", "out_point", "crop_note"}

\* C27: for every moment list and response text the call returns a list of
\* the same length and order, whose i-th element has every field of the
\* i-th input moment unchanged (quote and id among them) and an
\* editor_cut_sheet mapping; the input moments are not modified.
C27_FrameOfMerge ==
    /\ [][original_moments' = original_moments]_vars
    /\ [](tpc = "merged" =>
            /\ ~updated_moments.raised
            /\ Len(updated_moments.moments) = Len(original_moments)
            /\ \A i \in 1..Len(original_moments) :
                LET old == original_moments[i]
                    new == updated_moments.moments[i]
                IN /\ DOMAIN new = DOMAIN old \cup {"editor_cut_sheet"}
                   /\ \A k \in DOMAIN old \ {"editor_cut_sheet"} : new[k] = old[k]
                   /\ DOMAIN new.editor_cut_sheet = SheetKeys)

\* the positions of the MOMENT HEADER lines of the response
Headers == {k \in 1..Len(response) : response[k].kind = "header"}
NthHeader(i) == CHOOSE k \in Headers : Cardinality({j \in Headers : j < k}) = i - 1

\* the i-th MOMENT HEADER block: from the i-th header line to the line
\* before the next one
HeaderBlock(i) ==
    SubSeq(response, NthHeader(i),
           IF i < Cardinality(Headers) THEN NthHeader(i + 1) - 1 ELSE Len(response))

\* C28: the i-th moment gets the cut sheet parsed from the i-th MOMENT
\* HEADER block of the response, whatever text comes before the first
\* MOMENT HEADER.
C28_PairedByOrder ==
    (tpc = "merged" /\ ~updated_moments.raised) =>
        \A i \in 1..Len(original_moments) :
            i <= Cardinality(Headers) =>
                updated_moments.moments[i].editor_cut_sheet
                    = parse_single_cut_sheet_block(HeaderBlock(i))

\* no cut sheet is found for moment i: the response has no block for it, or
\* its block has no EDITOR CUT SHEET line
NoSheetFound(i) ==
    \/ i > Len(ReSplit(response))
    \/ \A k \in 1..Len(ReSplit(response)[i]) : ReSplit(response)[i][k].kind # "section"

HasRange(t) == t.kind = "text" /\ t.start # <<>> /\ t.end # <<>>

\* C29: a moment for which no cut sheet is found gets the fallback of
\* create_fallback_cut_sheet, with the start and the end of its timestamps
\* range as in_point and out_point.
C29_FallbackWhenNotFound ==
    (tpc = "merged" /\ ~updated_moments.raised) =>
        \A i \in 1..Len(original_moments) :
            NoSheetFound(i) =>
                LET cut_sheet == updated_moments.moments[i].editor_cut_sheet
                    timestamps == original_moments[i].timestamps
                IN /\ cut_sheet = create_fallback_cut_sheet(original_moments[i]).cut_sheet
                   /\ HasRange(timestamps) =>
                        (cut_sheet.in_point = timestamps.start /\ cut_sheet.out_point = timestamps.end)


(***************************************************************************)
(* Claims about the clipper (SpecClip).                                    *)
(***************************************************************************)
\* C30: _timestamp_to_seconds(_seconds_to_timestamp(t)) = t for every time t
\* of whole milliseconds, and for every clip cut_video seeks to
\* max(0, start - 1 s) and cuts for the padded length, end + 2 s less that
\* start, both non-negative.
C30_RoundTripAndPadding ==
    /\ tpc \in {"pad", "cut", "clipped"} => t_back = t_ms
    /\ tpc = "clipped" =>
        LET want_start == Larger(0, clip.start_cs * 10 - pre_roll)
            want_end == Larger(want_start, clip.end_cs * 10 + post_roll)
        IN /\ seek.ss = want_start
           /\ seek.t = want_end - want_start
           /\ seek.ss >= 0
           /\ seek.t >= 0

====
